---- MODULE Spec2Model ----
(***************************************************************************)
(* Texas Hold'em hand simulation engine of poker_advisor:                  *)
(*   simulation/engine.py    ActionValidator, StreetState, SimulationEngine*)
(*   simulation/pot.py       PotManager                                    *)
(*   simulation/deck.py      Deck                                          *)
(*   simulation/evaluator.py HandEvaluator                                 *)
(*   agents/decision.py      DecisionEngine._select_action                 *)
(*                                                                         *)
(* Chip amounts are Python floats in the source.  Here every amount is an  *)
(* integer number of 1/Unit chips, so that the one division of the engine, *)
(* pot / len(winner_seats), is exact.  Rounding error of floats is not     *)
(* modelled.  None is modelled by NoSeat for seats and by the records      *)
(* NoGame / NoStreet for game_state / street_state.                        *)
(***************************************************************************)
EXTENDS Integers, Sequences, FiniteSets, TLC

\* ------------------------------------------------------------------ bounds
\* largest amount (in chips) a caller passes to player_action / a decision carries
MaxAmount == 7
\* largest number of actions taken on one street (street_state.action_count)
MaxActions == 4
\* largest stack / bet / min raise (in chips) given to the validator on its own
MaxProbe == 5

\* largest number of chips one seat puts into a PotManager driven on its own
MaxBets == 2

\* largest number of hands started in one session (hand_number)
MaxHands == 3

\* table sizes of the configurations
SeatCounts == {2, 3}

\* table sizes of the hands that are dealt to the river with fixed bets: the
\* factory seats at most nine players (seats 1 to 9)
TableSizes == 2..9

NoSeat == 0

Max(a, b) == IF a >= b THEN a ELSE b
Min(a, b) == IF a <= b THEN a ELSE b

RECURSIVE Factorial(_)
Factorial(n) == IF n <= 1 THEN 1 ELSE n * Factorial(n - 1)

\* number of model units per chip: every winner count divides it
Unit == Factorial(CHOOSE n \in SeatCounts : \A m \in SeatCounts : m <= n)
Chips(k) == k * Unit

\* ------------------------------------------------------------------- cards
\* Card c of 0..51: suit c \div 13 in the order of Suit (h, d, c, s), rank
\* (c % 13) + 2 in the order of Rank (2 .. 14, Ace high).
RankOf(c) == (c % 13) + 2
SuitOf(c) == c \div 13

\* Deck._reset: for suit in Suit: for rank in Rank: append
FreshDeck == [i \in 1..52 |-> i - 1]

\* Deck.shuffle: random.shuffle yields any permutation; the model draws from
\* the permutations i -> FreshDeck[((i-1)*k + o) % 52 + 1], k coprime to 52.
StrideDeck(k, o) == [i \in 1..52 |-> FreshDeck[(((i - 1) * k + o) % 52) + 1]]
Shuffles == {StrideDeck(1, 0), StrideDeck(5, 0)}

\* DeckDeal that hands out the cards and leaves them in the deck
DeckDealNotRemoved(cards, count) ==
    IF count > Len(cards)
    THEN [ok |-> FALSE, dealt |-> <<>>, cards |-> cards]
    ELSE [ok |-> TRUE, dealt |-> SubSeq(cards, 1, count), cards |-> cards]

\* DeckDeal that hands out what is left when count > len(cards)
DeckDealShort(cards, count) ==
    [ok |-> TRUE,
     dealt |-> SubSeq(cards, 1, Min(count, Len(cards))),
     cards |-> SubSeq(cards, Min(count, Len(cards)) + 1, Len(cards))]

\* DeckDeal that takes the cards from the end of the list
DeckDealFromBottom(cards, count) ==
    IF count > Len(cards)
    THEN [ok |-> FALSE, dealt |-> <<>>, cards |-> cards]
    ELSE [ok |-> TRUE,
          dealt |-> SubSeq(cards, Len(cards) - count + 1, Len(cards)),
          cards |-> SubSeq(cards, 1, Len(cards) - count)]

\* Deck.deal(count): None (here <<>> with ok = FALSE) when count > len(cards)
DeckDeal(cards, count) ==
    IF count > Len(cards)
    THEN [ok |-> FALSE, dealt |-> <<>>, cards |-> cards]
    ELSE [ok |-> TRUE,
          dealt |-> SubSeq(cards, 1, count),
          cards |-> SubSeq(cards, count + 1, Len(cards))]

\* --------------------------------------------------------------- evaluator
HIGH_CARD == 0
ONE_PAIR == 1
TWO_PAIR == 2
THREE_OF_A_KIND == 3
STRAIGHT == 4
FLUSH == 5
FULL_HOUSE == 6
FOUR_OF_A_KIND == 7
STRAIGHT_FLUSH == 8
ROYAL_FLUSH == 9

\* [c.rank.numeric_value for c in cards]
RankValues(cards) == [i \in DOMAIN cards |-> RankOf(cards[i])]

\* sorted(..., reverse=True) of a list of numbers
SortedDesc(sq) == SortSeq(sq, LAMBDA x, y : x > y)

AllRanks == [i \in 1..13 |-> i + 1]

\* rank_counts: for r in ranks: rank_counts[r] = rank_counts.get(r, 0) + 1
RankCounts(ranks) ==
    [r \in 2..14 |-> Cardinality({i \in DOMAIN ranks : ranks[i] = r})]

\* list(rank_counts.keys())
CountKeys(rank_counts) == SelectSeq(AllRanks, LAMBDA r : rank_counts[r] > 0)

\* sorted(rank_counts.values(), reverse=True)
CountsDesc(rank_counts) ==
    LET ks == CountKeys(rank_counts)
    IN  SortedDesc([i \in 1..Len(ks) |-> rank_counts[ks[i]]])

\* sorted(rank_counts.keys(), key=lambda r: (-rank_counts[r], -r))
SortedUniqueRanks(rank_counts) ==
    SortSeq(CountKeys(rank_counts),
            LAMBDA x, y : \/ rank_counts[x] > rank_counts[y]
                          \/ (rank_counts[x] = rank_counts[y] /\ x > y))

\* CheckStraight that reports the Ace as the high card of A-2-3-4-5
CheckStraightWheelAceHigh(ranks) ==
    LET u == SortedDesc(CountKeys(RankCounts(ranks)))
        hits == {i \in 1..(Len(u) - 4) : u[i] - u[i + 4] = 4}
        has(r) == \E i \in 1..Len(u) : u[i] = r
    IN  IF Len(u) >= 5 /\ hits # {}
        THEN [is_straight |-> TRUE,
              high_card |-> u[CHOOSE i \in hits : \A j \in hits : i <= j]]
        ELSE IF has(14) /\ has(2) /\ has(3) /\ has(4) /\ has(5)
        THEN [is_straight |-> TRUE, high_card |-> 14]
        ELSE [is_straight |-> FALSE, high_card |-> 0]

\* HandEvaluator._check_straight
CheckStraight(ranks) ==
    LET u == SortedDesc(CountKeys(RankCounts(ranks)))
        hits == {i \in 1..(Len(u) - 4) : u[i] - u[i + 4] = 4}
        has(r) == \E i \in 1..Len(u) : u[i] = r
    IN  IF Len(u) >= 5 /\ hits # {}
        THEN [is_straight |-> TRUE,
              high_card |-> u[CHOOSE i \in hits : \A j \in hits : i <= j]]
        ELSE IF has(14) /\ has(2) /\ has(3) /\ has(4) /\ has(5)
        THEN [is_straight |-> TRUE, high_card |-> 5]
        ELSE [is_straight |-> FALSE, high_card |-> 0]

\* HandEvaluator._evaluate_five
EvaluateFive(cards) ==
    LET ranks == SortedDesc(RankValues(cards))
        rank_counts == RankCounts(ranks)
        is_flush == Cardinality({SuitOf(cards[i]) : i \in DOMAIN cards}) = 1
        st == CheckStraight(ranks)
        counts == CountsDesc(rank_counts)
        sur == SortedUniqueRanks(rank_counts)
        without(r) == SelectSeq(ranks, LAMBDA x : x # r)
    IN  IF is_flush /\ st.is_straight /\ st.high_card = 14
        THEN [rank |-> ROYAL_FLUSH, keys |-> <<14>>]
        ELSE IF is_flush /\ st.is_straight
        THEN [rank |-> STRAIGHT_FLUSH, keys |-> <<st.high_card>>]
        ELSE IF counts[1] = 4
        THEN [rank |-> FOUR_OF_A_KIND, keys |-> <<sur[1], sur[2]>>]
        ELSE IF counts[1] = 3 /\ counts[2] = 2
        THEN [rank |-> FULL_HOUSE, keys |-> <<sur[1], sur[2]>>]
        ELSE IF is_flush
        THEN [rank |-> FLUSH, keys |-> ranks]
        ELSE IF st.is_straight
        THEN [rank |-> STRAIGHT, keys |-> <<st.high_card>>]
        ELSE IF counts[1] = 3
        THEN [rank |-> THREE_OF_A_KIND,
              keys |-> <<sur[1]>> \o SubSeq(without(sur[1]), 1, 2)]
        ELSE IF counts[1] = 2 /\ counts[2] = 2
        THEN [rank |-> TWO_PAIR,
              keys |-> <<Max(sur[1], sur[2]), Min(sur[1], sur[2]), sur[3]>>]
        ELSE IF counts[1] = 2
        THEN [rank |-> ONE_PAIR,
              keys |-> <<sur[1]>> \o SubSeq(without(sur[1]), 1, 3)]
        ELSE [rank |-> HIGH_CARD, keys |-> ranks]

\* HandEvaluator._evaluate_partial
EvaluatePartial(cards) ==
    LET ranks == SortedDesc(RankValues(cards))
        rank_counts == RankCounts(ranks)
        counts == CountsDesc(rank_counts)
        sur == SortedUniqueRanks(rank_counts)
    IN  IF counts[1] = 4 THEN [rank |-> FOUR_OF_A_KIND, keys |-> <<sur[1]>>]
        ELSE IF counts[1] = 3 THEN [rank |-> THREE_OF_A_KIND, keys |-> <<sur[1]>>]
        ELSE IF counts[1] = 2 /\ Len(counts) > 1 /\ counts[2] = 2
        THEN [rank |-> TWO_PAIR, keys |-> <<sur[1], sur[2]>>]
        ELSE IF counts[1] = 2 THEN [rank |-> ONE_PAIR, keys |-> <<sur[1]>>]
        ELSE [rank |-> HIGH_CARD, keys |-> ranks]

\* Python's list comparison keys > best_keys
KeysGT(a, b) ==
    \E i \in 1..Len(a) :
        /\ \A j \in 1..(i - 1) : j <= Len(b) /\ a[j] = b[j]
        /\ (i > Len(b) \/ a[i] > b[i])

\* itertools.combinations(range(lo, hi+1), k), in its order
RECURSIVE Combinations(_, _, _)
Combinations(lo, hi, k) ==
    IF k = 0 THEN << <<>> >>
    ELSE IF hi - lo + 1 < k THEN <<>>
    ELSE LET rest == Combinations(lo + 1, hi, k - 1)
         IN  [i \in 1..Len(rest) |-> <<lo>> \o rest[i]] \o Combinations(lo + 1, hi, k)

\* combinations(cards, 5) as index tuples, for the hand sizes above 5
FiveOf == [n \in 6..7 |-> Combinations(1, n, 5)]

\* the loop of evaluate over the 5-card combinations, keeping the best so far
RECURSIVE BestOfCombos(_, _, _, _)
BestOfCombos(cards, combos, i, best) ==
    IF i > Len(combos) THEN best
    ELSE LET combo == [j \in 1..5 |-> cards[combos[i][j]]]
             e == EvaluateFive(combo)
             better == e.rank > best.rank \/ (e.rank = best.rank /\ KeysGT(e.keys, best.keys))
         IN  BestOfCombos(cards, combos, i + 1, IF better THEN e ELSE best)

\* HandEvaluator.evaluate
Evaluate(cards) ==
    IF Len(cards) < 2 THEN [rank |-> HIGH_CARD, keys |-> <<0>>]
    ELSE IF Len(cards) > 5
    THEN BestOfCombos(cards, FiveOf[Len(cards)], 1,
                      [rank |-> HIGH_CARD, keys |-> <<>>])
    ELSE IF Len(cards) = 5 THEN EvaluateFive(cards)
    ELSE EvaluatePartial(cards)

\* --------------------------------------------------------- ActionValidator
FOLD == "fold"
CHECK == "check"
CALL == "call"
BET == "bet"
RAISE == "raise"
ALL_IN == "all_in"
POST_BLIND == "post_blind"
ActionTypes == {FOLD, CHECK, CALL, BET, RAISE, ALL_IN}
\* an ActionType that validate_action does not handle
OtherActionTypes == {POST_BLIND}

\* GetAvailableActions with RAISE offered to every stack that covers the call
GetAvailableActionsRaiseOnCall(player, current_bet, min_raise) ==
    LET to_call == current_bet - player.current_bet
    IN  IF player.is_folded \/ player.is_all_in THEN <<>>
        ELSE (IF to_call > 0 THEN <<FOLD>> ELSE <<>>)
          \o (IF to_call = 0 THEN <<CHECK>>
              ELSE IF player.stack >= to_call THEN <<CALL>> ELSE <<>>)
          \o (IF to_call = 0
              THEN (IF player.stack > 0 THEN <<BET>> ELSE <<>>)
              ELSE (IF player.stack >= to_call THEN <<RAISE>> ELSE <<>>))
          \o (IF player.stack > 0 /\ to_call > 0 THEN <<ALL_IN>> ELSE <<>>)

\* ActionValidator.get_available_actions, as the list it builds
GetAvailableActions(player, current_bet, min_raise) ==
    LET to_call == current_bet - player.current_bet
    IN  IF player.is_folded \/ player.is_all_in THEN <<>>
        ELSE (IF to_call > 0 THEN <<FOLD>> ELSE <<>>)
          \o (IF to_call = 0 THEN <<CHECK>>
              ELSE IF player.stack >= to_call THEN <<CALL>> ELSE <<>>)
          \o (IF to_call = 0
              THEN (IF player.stack > 0 THEN <<BET>> ELSE <<>>)
              ELSE (IF player.stack >= to_call + min_raise THEN <<RAISE>> ELSE <<>>))
          \o (IF player.stack > 0 /\ to_call > 0 THEN <<ALL_IN>> ELSE <<>>)

Invalid == [is_valid |-> FALSE, amount |-> 0]
Valid(total) == [is_valid |-> TRUE, amount |-> total]

\* validate_action, the branch of ActionType.CALL
ValidateCall(player, to_call) ==
    IF to_call <= 0 THEN Invalid
    ELSE IF player.stack < to_call THEN Valid(player.current_bet + player.stack)
    ELSE Valid(player.current_bet + to_call)

\* validate_action, the branch of ActionType.BET
ValidateBet(amount, player, to_call, big_blind) ==
    IF to_call # 0 THEN Invalid
    ELSE IF player.stack <= 0 THEN Invalid
    ELSE Valid(Min(Max(big_blind, amount), player.stack))

\* ValidateRaise without the cap at the all-in total
ValidateRaiseUncapped(amount, player, to_call, min_raise) ==
    IF to_call < 0 THEN Invalid
    ELSE IF to_call = 0 THEN Invalid
    ELSE IF player.stack < to_call THEN Valid(player.current_bet + player.stack)
    ELSE IF player.stack < to_call + min_raise
    THEN Valid(player.current_bet + player.stack)
    ELSE Valid(Max(to_call + min_raise, amount))

\* ValidateRaise without the test that there is a bet to raise
ValidateRaiseNothingOwed(amount, player, to_call, min_raise) ==
    IF to_call < 0 THEN Invalid
    ELSE IF player.stack < to_call THEN Valid(player.current_bet + player.stack)
    ELSE IF player.stack < to_call + min_raise
    THEN Valid(player.current_bet + player.stack)
    ELSE Valid(Min(Max(to_call + min_raise, amount),
                   player.stack + player.current_bet))

\* validate_action, the branch of ActionType.RAISE
ValidateRaise(amount, player, to_call, min_raise) ==
    IF to_call < 0 THEN Invalid
    ELSE IF to_call = 0 THEN Invalid
    ELSE IF player.stack < to_call THEN Valid(player.current_bet + player.stack)
    ELSE IF player.stack < to_call + min_raise
    THEN Valid(player.current_bet + player.stack)
    ELSE Valid(Min(Max(to_call + min_raise, amount),
                   player.stack + player.current_bet))

\* ActionValidator.validate_action: (is_valid, adjusted_amount)
ValidateAction(action_type, amount, player, current_bet, min_raise, big_blind) ==
    LET player_bet == player.current_bet
        to_call == current_bet - player_bet
    IN  CASE action_type = FOLD -> Valid(0)
          [] action_type = CHECK ->
                IF to_call # 0 THEN Invalid ELSE Valid(0)
          [] action_type = CALL -> ValidateCall(player, to_call)
          [] action_type = BET -> ValidateBet(amount, player, to_call, big_blind)
          [] action_type = RAISE -> ValidateRaise(amount, player, to_call, min_raise)
          [] action_type = ALL_IN -> Valid(player_bet + player.stack)
          [] OTHER -> Invalid

\* ---------------------------------------------------------------- state
VARIABLES
    config,           \* SimulationEngine.config (SimulationConfig)
    deck,             \* Deck.cards
    pot,              \* PotManager: main_pot, current_bets, total_invested
    agents,           \* per agent seat: hands_played, hands_won
    hand_number,      \* SimulationEngine.hand_number
    game_state,       \* GameState, NoGame for None
    street_state,     \* StreetState, NoStreet for None
    dealer_seat,      \* SimulationEngine.dealer_seat
    completed_hands,  \* SimulationEngine.completed_hands
    hand_actions,     \* len(SimulationEngine.hand_actions)
    uncalled,         \* sum of the amounts _complete_street returned in this hand
    acted_since,      \* seats that acted since the street's current bet last rose
    last,             \* the last public call and how it ended
    probe             \* arguments and result of a validate_action call made on its own

engine_vars == <<config, deck, pot, agents, hand_number, game_state, street_state,
                 dealer_seat, completed_hands, hand_actions>>
history_vars == <<uncalled, acted_since, last>>
vars == <<config, deck, pot, agents, hand_number, game_state, street_state,
          dealer_seat, completed_hands, hand_actions, uncalled, acted_since, last,
          probe>>

\* SimulationConfig with blinds 1/2; player_count counts the hero, hero_seat
\* NoSeat is None, hero_stack is the stack of every seat
Table(player_count, hero_stack, hero_seat) ==
    [player_count |-> player_count, small_blind |-> Chips(1), big_blind |-> Chips(2),
     hero_stack |-> Chips(hero_stack), hero_seat |-> hero_seat]

\* the configurations: a stack below the small blind, a stack the big blind
\* nearly empties, a stack that allows a raise and a re-raise, three seats
Configs ==
    {Table(2, 1, 1), Table(2, 3, NoSeat), Table(2, 6, 1), Table(3, 3, 1)}

\* the configurations of the hands in which every seat checks or calls: every
\* table size and every stack up to MaxAmount chips, with and without a hero
PassiveConfigs ==
    {Table(n, k, h) : n \in SeatCounts, k \in 1..MaxAmount, h \in {NoSeat, 1}}

NoGame ==
    [phase |-> "none", pot |-> 0, current_bet |-> 0, min_raise |-> 0,
     community_cards |-> <<>>, players |-> <<>>, dealer_seat |-> NoSeat,
     current_player_seat |-> NoSeat, hand_number |-> 0]

NoStreet ==
    [street |-> "none", current_bet |-> 0, min_raise |-> 0, last_aggressor |-> NoSeat,
     action_count |-> 0, acted_seats |-> {}]

\* StreetState(street=..., current_bet=..., min_raise=..., acted_seats=set())
NewStreetState(street, current_bet, min_raise) ==
    [street |-> street, current_bet |-> current_bet, min_raise |-> min_raise,
     last_aggressor |-> NoSeat, action_count |-> 0, acted_seats |-> {}]

\* the engine object as one record, so that a handler is a composition of steps
Eng ==
    [config |-> config, deck |-> deck, pot |-> pot, agents |-> agents,
     hand_number |-> hand_number, game_state |-> game_state,
     street_state |-> street_state, dealer_seat |-> dealer_seat,
     completed_hands |-> completed_hands, hand_actions |-> hand_actions,
     uncalled |-> uncalled, acted_since |-> acted_since]

Commit(e) ==
    /\ config' = e.config
    /\ deck' = e.deck
    /\ pot' = e.pot
    /\ agents' = e.agents
    /\ hand_number' = e.hand_number
    /\ game_state' = e.game_state
    /\ street_state' = e.street_state
    /\ dealer_seat' = e.dealer_seat
    /\ completed_hands' = e.completed_hands
    /\ hand_actions' = e.hand_actions
    /\ uncalled' = e.uncalled
    /\ acted_since' = e.acted_since

\* SimulationEngine._get_all_seats: the factory seats agents at the lowest free
\* seats, so with hero_seat within 1..player_count the seats are 1..player_count
GetAllSeats(cfg) == 1..cfg.player_count

\* the seats of SimulationEngine.agents
AgentSeats(cfg) == GetAllSeats(cfg) \ {cfg.hero_seat}

\* NextSeat that stops at the highest seat instead of wrapping around
NextSeatClamped(cfg, seat) ==
    IF seat \in GetAllSeats(cfg) THEN Min(seat + 1, cfg.player_count) ELSE 1

\* SimulationEngine._next_seat
NextSeat(cfg, seat) ==
    IF seat \in GetAllSeats(cfg) THEN (seat % cfg.player_count) + 1 ELSE 1

\* iteration order of the players dict: the hero first, then the agents
SeatOrder(cfg) ==
    LET asc == [i \in 1..cfg.player_count |-> i]
    IN  IF cfg.hero_seat \in GetAllSeats(cfg)
        THEN <<cfg.hero_seat>> \o SelectSeq(asc, LAMBDA s : s # cfg.hero_seat)
        ELSE asc

RECURSIVE SumOver(_, _)
SumOver(f, S) ==
    IF S = {} THEN 0
    ELSE LET x == CHOOSE y \in S : TRUE IN f[x] + SumOver(f, S \ {x})

\* ------------------------------------------------------------- PotManager
EmptyPot(cfg) ==
    [main_pot |-> 0,
     current_bets |-> [s \in GetAllSeats(cfg) |-> 0],
     total_invested |-> [s \in GetAllSeats(cfg) |-> 0]]

\* PotAddBet that leaves main_pot as it was
PotAddBetUnpooled(p, seat, amount) ==
    [main_pot |-> p.main_pot,
     current_bets |-> [p.current_bets EXCEPT ![seat] = @ + amount],
     total_invested |-> [p.total_invested EXCEPT ![seat] = @ + amount]]

\* PotManager.add_bet
PotAddBet(p, seat, amount) ==
    [main_pot |-> p.main_pot + amount,
     current_bets |-> [p.current_bets EXCEPT ![seat] = @ + amount],
     total_invested |-> [p.total_invested EXCEPT ![seat] = @ + amount]]

\* PotResetStreet that clears the lifetime amounts with the street's bets
PotResetStreetAll(p) ==
    [p EXCEPT !.current_bets = [s \in DOMAIN p.current_bets |-> 0],
              !.total_invested = [s \in DOMAIN p.total_invested |-> 0]]

\* PotManager.reset_street
PotResetStreet(p) == [p EXCEPT !.current_bets = [s \in DOMAIN p.current_bets |-> 0]]

\* PotManager.total_pot (side_pots is never filled)
TotalPot(p) == p.main_pot

\* PotManager.return_uncalled_bets: the returns dict (seat NoSeat: empty) and the pot
PotReturnUncalledBets(p, last_aggressor_seat, active_seats) ==
    LET none == [seat |-> NoSeat, amount |-> 0, pot |-> p]
        bets == [s \in active_seats |-> p.current_bets[s]]
        max_bet == CHOOSE b \in {bets[s] : s \in active_seats} :
                       \A s \in active_seats : bets[s] <= b
        min_bet == CHOOSE b \in {bets[s] : s \in active_seats} :
                       \A s \in active_seats : bets[s] >= b
        max_bettors == {s \in active_seats : bets[s] = max_bet}
    IN  IF Cardinality(active_seats) < 2 THEN none
        ELSE IF max_bet > min_bet /\ Cardinality(max_bettors) = 1
        THEN [seat |-> CHOOSE s \in max_bettors : TRUE,
              amount |-> max_bet - min_bet,
              pot |-> [p EXCEPT !.main_pot = @ - (max_bet - min_bet)]]
        ELSE none

\* ------------------------------------------------------- SimulationEngine
NotFolded(players) == {s \in DOMAIN players : ~players[s].is_folded}
NotFoldedNotAllIn(players) ==
    {s \in DOMAIN players : ~players[s].is_folded /\ ~players[s].is_all_in}

\* assign_positions: the position templates by number of seats, from the button on
PositionOrders(n) ==
    IF n = 3 THEN <<"BTN", "SB", "BB">>
    ELSE IF n = 4 THEN <<"BTN", "SB", "BB", "UTG">>
    ELSE IF n = 5 THEN <<"BTN", "SB", "BB", "UTG", "CO">>
    ELSE IF n = 6 THEN <<"BTN", "SB", "BB", "UTG", "MP", "CO">>
    ELSE IF n = 7 THEN <<"BTN", "SB", "BB", "UTG", "MP", "HJ", "CO">>
    ELSE IF n = 8 THEN <<"BTN", "SB", "BB", "UTG", "UTG+1", "MP", "HJ", "CO">>
    ELSE <<"BTN", "SB", "BB", "UTG", "UTG+1", "MP", "MP+1", "HJ", "CO">>

\* assign_positions(sorted seats, dealer_seat): the position of every seat;
\* heads-up the dealer is SB and the other seat BB
AssignPositions(seats, dealer) ==
    LET n == Len(seats)
        dealer_idx == CHOOSE i \in 1..n : seats[i] = dealer
        ordered == [i \in 1..n |-> seats[((dealer_idx - 1 + i - 1) % n) + 1]]
        positions == IF n = 2 THEN <<"SB", "BB">> ELSE PositionOrders(n)
    IN  IF n < 2 THEN <<>>
        ELSE [s \in {seats[i] : i \in 1..n} |->
                 positions[CHOOSE i \in 1..n : ordered[i] = s]]

\* SimulationEngine._create_player_states (cards still empty)
CreatePlayerStates(cfg) ==
    [s \in GetAllSeats(cfg) |->
        [stack |-> cfg.hero_stack, cards |-> <<>>, is_hero |-> (s = cfg.hero_seat),
         is_folded |-> FALSE, is_all_in |-> FALSE,
         current_bet |-> 0, total_invested |-> 0]]

\* SimulationEngine._deal_hole_cards: card i of the 2n goes to seat i mod n in dict order
RECURSIVE DealHoleCards(_, _, _, _)
DealHoleCards(players, cards, order, i) ==
    IF i > 2 * Len(order) THEN [players |-> players, cards |-> cards]
    ELSE LET seat == order[((i - 1) % Len(order)) + 1]
             d == DeckDeal(cards, 1)
         IN  DealHoleCards([players EXCEPT ![seat].cards = Append(@, d.dealt[1])],
                           d.cards, order, i + 1)

\* the hands a showdown can see: two hole cards and the first five cards left
\* in the deck after the deal, for every configuration and shuffle
ShowdownHands ==
    UNION {LET dealt == DealHoleCards(CreatePlayerStates(cfg), d, SeatOrder(cfg), 1)
           IN  {dealt.players[s].cards \o SubSeq(dealt.cards, 1, 5) : s \in GetAllSeats(cfg)}
           : cfg \in Configs \union PassiveConfigs, d \in Shuffles}

\* HandEvaluator.evaluate of these hands, computed once
EvaluateTable == [cards \in ShowdownHands |-> Evaluate(cards)] @@ <<>>

\* HandEvaluator.evaluate, read from the table where the table has the hand
EvaluateHand(cards) ==
    IF cards \in DOMAIN EvaluateTable THEN EvaluateTable[cards] ELSE Evaluate(cards)

\* the "find the best hand" loop of get_winners over evaluations.values()
RECURSIVE BestOfSeats(_, _, _, _)
BestOfSeats(evals, order, i, best) ==
    IF i > Len(order) THEN best
    ELSE LET e == evals[order[i]]
             better == e.rank > best.rank \/ (e.rank = best.rank /\ KeysGT(e.keys, best.keys))
         IN  BestOfSeats(evals, order, i + 1, IF better THEN e ELSE best)

\* TiedWithBest that stops at the first seat with the best hand
TiedWithBestFirstOnly(evals, order) ==
    LET best == BestOfSeats(evals, order, 1, [rank |-> HIGH_CARD, keys |-> <<>>])
    IN  {order[Min(i, Len(order))] : i \in
            {CHOOSE i \in 1..Len(order) :
                /\ evals[order[i]] = best
                /\ \A j \in 1..(i - 1) : evals[order[j]] # best}}

\* get_winners once the hands are evaluated: every seat that ties the best
TiedWithBest(evals, order) ==
    LET best == BestOfSeats(evals, order, 1, [rank |-> HIGH_CARD, keys |-> <<>>])
    IN  {s \in DOMAIN evals : evals[s].rank = best.rank /\ evals[s].keys = best.keys}

\* HandEvaluator.get_winners; order is the iteration order of player_cards
GetWinners(board, player_cards, order) ==
    IF Len(order) = 0 THEN {}
    ELSE TiedWithBest([s \in {order[i] : i \in 1..Len(order)} |->
                          EvaluateHand(player_cards[s] \o board)],
                      order)

\* PostBlind that posts the whole blind whatever the stack
PostBlindUncapped(e, players, seat, amount) ==
    IF seat \notin DOMAIN players THEN [e |-> e, players |-> players]
    ELSE [e |-> [e EXCEPT !.pot = PotAddBet(@, seat, amount),
                          !.hand_actions = @ + 1],
          players |-> [players EXCEPT ![seat] =
                          [@ EXCEPT !.stack = @ - amount,
                                    !.current_bet = amount,
                                    !.total_invested = amount,
                                    !.is_all_in = (players[seat].stack - amount <= 0)]]]

\* SimulationEngine._post_blind on the players of the hand being set up
PostBlind(e, players, seat, amount) ==
    IF seat \notin DOMAIN players THEN [e |-> e, players |-> players]
    ELSE LET player == players[seat]
             actual_amount == Min(amount, player.stack)
             stack == player.stack - actual_amount
         IN  [e |-> [e EXCEPT !.pot = PotAddBet(@, seat, actual_amount),
                              !.hand_actions = @ + 1,
                              !.street_state =
                                  IF @.street # "none"
                                  THEN [@ EXCEPT !.acted_seats = @ \union {seat}]
                                  ELSE @],
              players |-> [players EXCEPT ![seat] =
                              [@ EXCEPT !.stack = stack,
                                        !.current_bet = actual_amount,
                                        !.total_invested = actual_amount,
                                        !.is_all_in = (stack <= 0) \/ @]]]

\* StartNewHandCall with the pot of the hand before left in place
StartNewHandCallPotKept(e, shuffled) ==
    LET cfg == e.config
        e1 == [e EXCEPT !.hand_number = @ + 1, !.hand_actions = 0, !.uncalled = 0,
                        !.acted_since = {},
                        !.deck = shuffled,
                        !.dealer_seat = NextSeat(cfg, @)]
        dealt == DealHoleCards(CreatePlayerStates(cfg), e1.deck, SeatOrder(cfg), 1)
        e2 == [e1 EXCEPT !.deck = dealt.cards]
        sb_seat == NextSeat(cfg, e2.dealer_seat)
        bb_seat == NextSeat(cfg, sb_seat)
        b1 == PostBlind(e2, dealt.players, sb_seat, cfg.small_blind)
        b2 == PostBlind(b1.e, b1.players, bb_seat, cfg.big_blind)
        ss == NewStreetState("preflop", cfg.big_blind, cfg.big_blind)
    IN  [b2.e EXCEPT
            !.street_state = ss,
            !.game_state =
                [phase |-> "preflop", pot |-> TotalPot(b2.e.pot),
                 current_bet |-> ss.current_bet, min_raise |-> ss.min_raise,
                 community_cards |-> <<>>, players |-> b2.players,
                 dealer_seat |-> e2.dealer_seat,
                 current_player_seat |-> NextSeat(cfg, bb_seat),
                 hand_number |-> e1.hand_number]]

\* SimulationEngine.start_new_hand with the shuffle's outcome
StartNewHandCall(e, shuffled) ==
    LET cfg == e.config
        e1 == [e EXCEPT !.hand_number = @ + 1, !.hand_actions = 0, !.uncalled = 0,
                        !.acted_since = {},
                        !.deck = shuffled, !.pot = EmptyPot(cfg),
                        !.dealer_seat = NextSeat(cfg, @)]
        dealt == DealHoleCards(CreatePlayerStates(cfg), e1.deck, SeatOrder(cfg), 1)
        e2 == [e1 EXCEPT !.deck = dealt.cards]
        sb_seat == NextSeat(cfg, e2.dealer_seat)
        bb_seat == NextSeat(cfg, sb_seat)
        b1 == PostBlind(e2, dealt.players, sb_seat, cfg.small_blind)
        b2 == PostBlind(b1.e, b1.players, bb_seat, cfg.big_blind)
        ss == NewStreetState("preflop", cfg.big_blind, cfg.big_blind)
        first_to_act == NextSeat(cfg, bb_seat)
    IN  [b2.e EXCEPT
            !.street_state = ss,
            !.game_state =
                [phase |-> "preflop", pot |-> TotalPot(b2.e.pot),
                 current_bet |-> ss.current_bet, min_raise |-> ss.min_raise,
                 community_cards |-> <<>>, players |-> b2.players,
                 dealer_seat |-> e2.dealer_seat,
                 current_player_seat |-> first_to_act,
                 hand_number |-> e1.hand_number]]

\* IsStreetComplete without the test for a single seat left in the hand
IsStreetCompleteFoldsIgnored(e) ==
    IF e.game_state.phase = "none" \/ e.street_state.street = "none" THEN TRUE
    ELSE LET players == e.game_state.players
             ss == e.street_state
             active == NotFolded(players)
             active_not_allin == NotFoldedNotAllIn(players)
             all_matched == \A s \in active_not_allin :
                                ~(players[s].current_bet < ss.current_bet)
             all_acted == active_not_allin \subseteq ss.acted_seats
         IN  IF Cardinality(active_not_allin) = 0 THEN TRUE
             ELSE IF ~all_matched THEN FALSE
             ELSE IF ss.last_aggressor # NoSeat
             THEN all_matched /\ (all_acted \/ ss.action_count >= Cardinality(active))
             ELSE all_matched /\ all_acted

\* IsStreetComplete without the test that every seat has acted
IsStreetCompleteOnceMatched(e) ==
    IF e.game_state.phase = "none" \/ e.street_state.street = "none" THEN TRUE
    ELSE LET players == e.game_state.players
             ss == e.street_state
             active == NotFolded(players)
             active_not_allin == NotFoldedNotAllIn(players)
             all_matched == \A s \in active_not_allin :
                                ~(players[s].current_bet < ss.current_bet)
         IN  IF Cardinality(active) <= 1 THEN TRUE
             ELSE IF Cardinality(active_not_allin) = 0 THEN TRUE
             ELSE all_matched

\* SimulationEngine._is_street_complete
IsStreetComplete(e) ==
    IF e.game_state.phase = "none" \/ e.street_state.street = "none" THEN TRUE
    ELSE LET players == e.game_state.players
             ss == e.street_state
             active == NotFolded(players)
             active_not_allin == NotFoldedNotAllIn(players)
             all_matched == \A s \in active_not_allin :
                                ~(players[s].current_bet < ss.current_bet)
             all_acted == active_not_allin \subseteq ss.acted_seats
         IN  IF Cardinality(active) <= 1 THEN TRUE
             ELSE IF Cardinality(active_not_allin) = 0 THEN TRUE
             ELSE IF ~all_matched THEN FALSE
             ELSE IF ss.last_aggressor # NoSeat
             THEN all_matched /\ (all_acted \/ ss.action_count >= Cardinality(active))
             ELSE all_matched /\ all_acted

\* SimulationEngine._next_player_to_act
NextPlayerToAct(e, current_seat) ==
    LET cfg == e.config
        players == e.game_state.players
        n == cfg.player_count
        start_idx == IF current_seat \in GetAllSeats(cfg) THEN current_seat - 1 ELSE 0
        seat_at(i) == ((start_idx + i) % n) + 1
        owing == {i \in 1..n :
                     /\ ~players[seat_at(i)].is_folded
                     /\ ~players[seat_at(i)].is_all_in
                     /\ players[seat_at(i)].current_bet < e.street_state.current_bet}
        fallback == NotFoldedNotAllIn(players)
    IN  IF IsStreetComplete(e) THEN NoSeat
        ELSE IF owing # {} THEN seat_at(CHOOSE i \in owing : \A j \in owing : i <= j)
        ELSE IF fallback # {} THEN CHOOSE s \in fallback : \A t \in fallback : s <= t
        ELSE NoSeat

\* SimulationEngine._first_to_act_postflop
RECURSIVE FirstToActFrom(_, _, _)
FirstToActFrom(e, seat, tries) ==
    IF tries = 0 THEN NoSeat
    ELSE IF /\ seat \in DOMAIN e.game_state.players
            /\ ~e.game_state.players[seat].is_folded
            /\ ~e.game_state.players[seat].is_all_in
    THEN seat
    ELSE FirstToActFrom(e, NextSeat(e.config, seat), tries - 1)
FirstToActPostflop(e) ==
    IF e.game_state.phase = "none" THEN NoSeat
    ELSE FirstToActFrom(e, NextSeat(e.config, e.dealer_seat), 10)

\* BaseAgent.record_hand_result (hands_played, hands_won)
RecordHandResult(ags, seat, won) ==
    IF seat \in DOMAIN ags
    THEN [ags EXCEPT ![seat] = [hands_played |-> @.hands_played + 1,
                                hands_won |-> @.hands_won + (IF won THEN 1 ELSE 0)]]
    ELSE ags

RECURSIVE RecordAll(_, _, _)
RecordAll(ags, seats, won) ==
    IF seats = {} THEN ags
    ELSE LET s == CHOOSE x \in seats : TRUE
         IN  RecordAll(RecordHandResult(ags, s, won), seats \ {s}, won)

\* SimulationEngine._create_hand_record: the fields of HandRecord the engine computes
CreateHandRecord(e, winners) ==
    LET players == e.game_state.players
    IN  [hand_id |-> e.hand_number,
         stacks |-> [s \in DOMAIN players |->
                        e.config.hero_stack - players[s].total_invested
                        + (IF s \in DOMAIN winners THEN winners[s] ELSE 0)],
         board |-> Len(e.game_state.community_cards),
         pot_total |-> TotalPot(e.pot),
         winners |-> winners]

\* _complete_hand from the winners on: the pot is paid, the agents are told,
\* the HandRecord is kept
AwardPot(e, active, winner_seats) ==
    LET players == e.game_state.players
        amount ==
            IF Cardinality(active) = 1 THEN TotalPot(e.pot)
            ELSE IF winner_seats = {} THEN 0
            ELSE TotalPot(e.pot) \div Cardinality(winner_seats)
        losers == IF Cardinality(active) = 1 \/ winner_seats = {} THEN {}
                  ELSE active \ winner_seats
    IN  [e EXCEPT
            !.game_state.phase = "complete",
            !.game_state.players =
                [s \in DOMAIN players |->
                    IF s \in winner_seats
                    THEN [players[s] EXCEPT !.stack = @ + amount]
                    ELSE players[s]],
            !.agents = RecordAll(RecordAll(@, winner_seats, TRUE), losers, FALSE),
            !.completed_hands =
                Append(@, CreateHandRecord(e, [s \in winner_seats |-> amount]))]

\* CompleteHand with the folded seats shown down too
CompleteHandFoldedShown(e) ==
    LET players == e.game_state.players
        order == SelectSeq(SeatOrder(e.config), LAMBDA s : Len(players[s].cards) >= 2)
    IN  AwardPot(e, NotFolded(players),
                 IF Cardinality(NotFolded(players)) = 1 THEN NotFolded(players)
                 ELSE GetWinners(e.game_state.community_cards,
                                 [s \in DOMAIN players |-> players[s].cards], order))

\* SimulationEngine._complete_hand
CompleteHand(e) ==
    LET players == e.game_state.players
        active == NotFolded(players)
        order == SelectSeq(SeatOrder(e.config),
                           LAMBDA s : s \in active /\ Len(players[s].cards) >= 2)
    IN  AwardPot(e, active,
                 IF Cardinality(active) = 1 THEN active
                 ELSE GetWinners(e.game_state.community_cards,
                                 [s \in active |-> players[s].cards], order))

\* _complete_street, the move to the next street: the cards are dealt, a new
\* StreetState starts and the first seat after the dealer is to act
DealStreet(e, next_street, d) ==
    [e EXCEPT !.deck = d.cards,
              !.acted_since = {},
              !.game_state.community_cards = @ \o d.dealt,
              !.game_state.phase = next_street,
              !.street_state = NewStreetState(next_street, 0, e.config.big_blind),
              !.game_state.current_player_seat = FirstToActPostflop(e)]

\* LeaveStreet that goes to the showdown once the turn is complete
LeaveStreetNoRiver(e, street) ==
    IF Cardinality(NotFolded(e.game_state.players)) <= 1 THEN CompleteHand(e)
    ELSE IF street = "preflop" THEN DealStreet(e, "flop", DeckDeal(e.deck, 3))
    ELSE IF street = "flop" THEN DealStreet(e, "turn", DeckDeal(e.deck, 1))
    ELSE CompleteHand(e)

\* _complete_street after the return of uncalled bets: the bets of the street
\* are reset, then the hand ends or the next street starts
LeaveStreet(e, street) ==
    IF Cardinality(NotFolded(e.game_state.players)) <= 1 THEN CompleteHand(e)
    ELSE IF street = "preflop" THEN DealStreet(e, "flop", DeckDeal(e.deck, 3))
    ELSE IF street = "flop" THEN DealStreet(e, "turn", DeckDeal(e.deck, 1))
    ELSE IF street = "turn" THEN DealStreet(e, "river", DeckDeal(e.deck, 1))
    ELSE CompleteHand(e)

\* ReturnAndLeave that takes the returned chips off total_invested as well
ReturnAndLeaveDisinvested(e, ret) ==
    LeaveStreet([e EXCEPT
                    !.pot = PotResetStreet(ret.pot),
                    !.uncalled = @ + ret.amount,
                    !.game_state.players =
                        [s \in DOMAIN @ |->
                            [@[s] EXCEPT
                                !.stack = IF s = ret.seat THEN @ + ret.amount ELSE @,
                                !.total_invested =
                                    IF s = ret.seat THEN @ - ret.amount ELSE @,
                                !.current_bet = 0]]],
                e.street_state.street)

\* ReturnAndLeave with the returned chips left in the pot as well
ReturnAndLeavePotKept(e, ret) ==
    LeaveStreet([e EXCEPT
                    !.pot = PotResetStreet(e.pot),
                    !.uncalled = @ + ret.amount,
                    !.game_state.players =
                        [s \in DOMAIN @ |->
                            [@[s] EXCEPT
                                !.stack = IF s = ret.seat THEN @ + ret.amount ELSE @,
                                !.current_bet = 0]]],
                e.street_state.street)

\* _complete_street with the returns dict of return_uncalled_bets
ReturnAndLeave(e, ret) ==
    LeaveStreet([e EXCEPT
                    !.pot = PotResetStreet(ret.pot),
                    !.uncalled = @ + ret.amount,
                    !.game_state.players =
                        [s \in DOMAIN @ |->
                            [@[s] EXCEPT
                                !.stack = IF s = ret.seat THEN @ + ret.amount ELSE @,
                                !.current_bet = 0]]],
                e.street_state.street)

\* SimulationEngine._complete_street
CompleteStreet(e) ==
    IF e.game_state.phase = "none" THEN e
    ELSE ReturnAndLeave(e,
            IF e.street_state.last_aggressor # NoSeat
            THEN PotReturnUncalledBets(e.pot, e.street_state.last_aggressor,
                                       NotFolded(e.game_state.players))
            ELSE [seat |-> NoSeat, amount |-> 0, pot |-> e.pot])

\* SimulationEngine._process_action
ProcessAction(e, seat, action_type, amount) ==
    LET player == e.game_state.players[seat]
        ss == e.street_state
        previous_bet == player.current_bet
        increment == Max(0, amount - previous_bet)
        betting == action_type \in {CALL, BET, RAISE, ALL_IN}
        raises == /\ action_type \in {BET, RAISE, ALL_IN}
                  /\ amount > ss.current_bet
        player1 ==
            IF action_type = FOLD THEN [player EXCEPT !.is_folded = TRUE]
            ELSE IF betting
            THEN [player EXCEPT !.stack = @ - increment,
                                !.current_bet = amount,
                                !.total_invested = @ + increment,
                                !.is_all_in = @ \/ (action_type = ALL_IN)]
            ELSE player
        ss1 == IF raises
               THEN [ss EXCEPT !.min_raise = Max(@, amount - ss.current_bet),
                               !.current_bet = amount,
                               !.last_aggressor = seat]
               ELSE ss
    IN  [e EXCEPT !.game_state.players[seat] = player1,
                  !.pot = IF betting THEN PotAddBet(@, seat, increment) ELSE @,
                  !.hand_actions = @ + 1,
                  !.acted_since = IF raises THEN {seat} ELSE @ \union {seat},
                  !.street_state = [ss1 EXCEPT !.action_count = @ + 1,
                                               !.acted_seats = @ \union {seat}]]

\* SetNextSeat without the branch that clears the seat of a complete hand
SetNextSeatNotCleared(e, from, found) ==
    [e EXCEPT !.game_state.current_player_seat =
                  IF e.game_state.phase = "complete" THEN @
                  ELSE IF found = NoSeat /\ ~IsStreetComplete(e)
                  THEN NextSeat(e.config, from)
                  ELSE found,
              !.game_state.pot = TotalPot(e.pot),
              !.game_state.current_bet = e.street_state.current_bet,
              !.game_state.min_raise = e.street_state.min_raise]

\* _update_game_state from the seat _next_player_to_act found
SetNextSeat(e, from, found) ==
    [e EXCEPT !.game_state.current_player_seat =
                  IF e.game_state.phase = "complete" THEN NoSeat
                  ELSE IF found = NoSeat /\ ~IsStreetComplete(e)
                  THEN NextSeat(e.config, from)
                  ELSE found,
              !.game_state.pot = TotalPot(e.pot),
              !.game_state.current_bet = e.street_state.current_bet,
              !.game_state.min_raise = e.street_state.min_raise]

\* the seat _update_game_state searches from: current_player_seat or dealer_seat
SearchFrom(e) ==
    IF e.game_state.current_player_seat # NoSeat
    THEN e.game_state.current_player_seat ELSE e.dealer_seat

\* SimulationEngine._update_game_state
UpdateGameState(e) ==
    IF e.game_state.phase = "none" \/ e.street_state.street = "none" THEN e
    ELSE SetNextSeat(e, SearchFrom(e), NextPlayerToAct(e, SearchFrom(e)))

\* no street was left by the call
NoClosing == [street |-> "none"]

\* how a call that raised an error ended: the engine as it was
Raised(e, error, seat) ==
    [e |-> e, result |-> error, seat |-> seat, amount |-> 0, street_done |-> FALSE,
     closing |-> NoClosing]

\* player_action after _process_action: the street is completed if
\* _is_street_complete says so, then the game state is updated; closing is the
\* state _is_street_complete found complete
AfterAction(e, seat, amount, done) ==
    [e |-> UpdateGameState(IF done THEN CompleteStreet(e) ELSE e),
     result |-> "ok", seat |-> seat, amount |-> amount, street_done |-> done,
     closing |-> IF done
                 THEN [street |-> e.street_state.street,
                       current_bet |-> e.street_state.current_bet,
                       players |-> e.game_state.players,
                       acted_since |-> e.acted_since]
                 ELSE NoClosing]

\* Validated with the action put into the log before the verdict is read
ValidatedAfterLog(e, seat, action_type, v) ==
    IF ~v.is_valid THEN Raised([e EXCEPT !.hand_actions = @ + 1], "invalid", seat)
    ELSE AfterAction(ProcessAction(e, seat, action_type, v.amount), seat, v.amount,
                     IsStreetComplete(ProcessAction(e, seat, action_type, v.amount)))

\* player_action after validate_action: the error, or the action is processed
Validated(e, seat, action_type, v) ==
    IF ~v.is_valid THEN Raised(e, "invalid", seat)
    ELSE AfterAction(ProcessAction(e, seat, action_type, v.amount), seat, v.amount,
                     IsStreetComplete(ProcessAction(e, seat, action_type, v.amount)))

\* SimulationEngine.player_action: the engine afterwards and how the call ended
PlayerActionCall(e, action_type, amount) ==
    LET seat == e.game_state.current_player_seat
    IN  IF e.game_state.phase = "none" \/ e.street_state.street = "none"
        THEN Raised(e, "no_hand", NoSeat)
        ELSE IF seat = NoSeat THEN Raised(e, "no_player", NoSeat)
        ELSE IF seat \notin DOMAIN e.game_state.players
        THEN Raised(e, "no_player", seat)
        ELSE Validated(e, seat, action_type,
                       ValidateAction(action_type, amount, e.game_state.players[seat],
                                      e.street_state.current_bet,
                                      e.street_state.min_raise, e.config.big_blind))

\* ---------------------------------------------------------- DecisionEngine
\* DecisionEngine._select_action.  The hand score, the sampled aggression factor
\* and the random draws are inputs: band is where adjusted_score falls against
\* fold_threshold and raise_threshold, bluff is random.random() < bluff_chance,
\* odds is (score > call_threshold or pot_odds < 0.3), size is the value of
\* _calculate_bet_size / _calculate_raise_size.
Bands == {"weak", "medium", "strong"}
Decision(t, a) == [decision_type |-> t, amount |-> a]
SelectAction(band, bluff, odds, size, can_check, call_amount, min_raise, max_raise, player_current_bet) ==
    CASE band = "weak" ->
            IF can_check /\ call_amount = 0 THEN Decision(CHECK, 0)
            ELSE IF bluff /\ max_raise >= min_raise
            THEN Decision(RAISE, player_current_bet + call_amount + size)
            ELSE Decision(FOLD, 0)
      [] band = "medium" ->
            IF can_check /\ call_amount = 0 THEN Decision(CHECK, 0)
            ELSE IF call_amount > 0
            THEN (IF odds THEN Decision(CALL, call_amount) ELSE Decision(FOLD, 0))
            ELSE Decision(CHECK, 0)
      [] OTHER ->
            IF can_check /\ call_amount = 0 THEN Decision(BET, size)
            ELSE IF max_raise >= min_raise + call_amount + player_current_bet
            THEN Decision(RAISE, player_current_bet + call_amount + size)
            ELSE IF call_amount > 0 THEN Decision(CALL, call_amount)
            ELSE Decision(CHECK, 0)

InSeq(x, sq) == \E i \in 1..Len(sq) : sq[i] = x

\* SimulationEngine.get_available_actions
EngineAvailableActions(e) ==
    LET seat == e.game_state.current_player_seat
    IN  IF e.game_state.phase = "none" \/ e.street_state.street = "none" THEN <<>>
        ELSE IF seat = NoSeat \/ seat \notin DOMAIN e.game_state.players THEN <<>>
        ELSE GetAvailableActions(e.game_state.players[seat],
                                 e.street_state.current_bet, e.street_state.min_raise)

\* SimulationEngine.is_hero_turn
IsHeroTurn(e) ==
    /\ e.game_state.phase # "none"
    /\ e.game_state.current_player_seat # NoSeat
    /\ e.config.hero_seat # NoSeat
    /\ e.game_state.current_player_seat = e.config.hero_seat

\* AgentActionRequest that folds whenever the decision is not on offer
AgentActionRequestFoldsUnoffered(e, d) ==
    LET seat == e.game_state.current_player_seat
        player == e.game_state.players[seat]
        available_actions == EngineAvailableActions(e)
        to_call == e.street_state.current_bet - player.current_bet
        decision == SelectAction(d.band, d.bluff, d.odds, d.size,
                                 InSeq(CHECK, available_actions), to_call,
                                 e.street_state.min_raise,
                                 player.stack + player.current_bet,
                                 player.current_bet)
        action_type ==
            IF InSeq(decision.decision_type, available_actions) THEN decision.decision_type
            ELSE FOLD
        stop(r) == [error |-> r, action_type |-> "none", amount |-> 0]
        go(t, a) == [error |-> "none", action_type |-> t, amount |-> a]
    IN  IF e.game_state.phase = "none" \/ e.street_state.street = "none"
        THEN stop("no_hand")
        ELSE IF IsHeroTurn(e) THEN stop("hero_turn")
        ELSE IF seat = NoSeat THEN stop("no_player")
        ELSE IF seat \notin AgentSeats(e.config) THEN stop("no_agent")
        ELSE IF Len(available_actions) = 0 THEN go(FOLD, 0)
        ELSE go(action_type, decision.amount)

\* SimulationEngine.agent_action up to its call of player_action: the error it
\* raises, or the action type and amount it passes on, for the draws d of the
\* agent's DecisionEngine
AgentActionRequest(e, d) ==
    LET seat == e.game_state.current_player_seat
        player == e.game_state.players[seat]
        available_actions == EngineAvailableActions(e)
        to_call == e.street_state.current_bet - player.current_bet
        decision == SelectAction(d.band, d.bluff, d.odds, d.size,
                                 InSeq(CHECK, available_actions), to_call,
                                 e.street_state.min_raise,
                                 player.stack + player.current_bet,
                                 player.current_bet)
        action_type ==
            IF InSeq(decision.decision_type, available_actions) THEN decision.decision_type
            ELSE IF InSeq(CHECK, available_actions) THEN CHECK
            ELSE IF InSeq(CALL, available_actions) THEN CALL
            ELSE IF InSeq(FOLD, available_actions) THEN FOLD
            ELSE available_actions[1]
        stop(r) == [error |-> r, action_type |-> "none", amount |-> 0]
        go(t, a) == [error |-> "none", action_type |-> t, amount |-> a]
    IN  IF e.game_state.phase = "none" \/ e.street_state.street = "none"
        THEN stop("no_hand")
        ELSE IF IsHeroTurn(e) THEN stop("hero_turn")
        ELSE IF seat = NoSeat THEN stop("no_player")
        ELSE IF seat \notin AgentSeats(e.config) THEN stop("no_agent")
        ELSE IF Len(available_actions) = 0 THEN go(FOLD, 0)
        ELSE go(action_type, decision.amount)

\* SimulationEngine.agent_action: the engine afterwards and how the call ended
AgentActionRun(e, call) ==
    IF call.error # "none" THEN Raised(e, call.error, NoSeat)
    ELSE PlayerActionCall(e, call.action_type, call.amount)

\* ------------------------------------------------------------------ calls
\* amounts a caller requests and sizes a decision carries, in whole chips
Amounts == {Chips(k) : k \in {0, MaxAmount \div 2, MaxAmount}}

\* the calls of player_action: the amount defaults to 0 where the type ignores it
Requests ==
    [action_type : {BET, RAISE}, amount : Amounts]
    \union [action_type : {FOLD, CHECK, CALL, ALL_IN} \union OtherActionTypes, amount : {0}]

\* the draws of one agent decision
Draws == [band : Bands, bluff : BOOLEAN, odds : BOOLEAN, size : Amounts]

\* what last records of a call: the operation, the action type applied and the
\* total it was applied with, the seat that acted, and how the call ended
Called(op, action, r) ==
    [op |-> op, action |-> IF r.result = "ok" THEN action ELSE "none", seat |-> r.seat,
     amount |-> r.amount, result |-> r.result, street_done |-> r.street_done,
     closing |-> r.closing]

Idle == [op |-> "none", action |-> "none", seat |-> NoSeat, amount |-> 0,
         result |-> "none", street_done |-> FALSE, closing |-> NoClosing]

\* no call of the validator on its own
NoProbe == [called |-> "none"]

\* ToHandRecord that returns the record of the first hand of the session
ToHandRecordFirst(e) ==
    IF e.completed_hands # <<>> THEN <<e.completed_hands[1]>> ELSE <<>>

\* SimulationEngine.to_hand_record, <<>> for None
ToHandRecord(e) ==
    IF e.completed_hands # <<>> THEN <<e.completed_hands[Len(e.completed_hands)]>>
    ELSE <<>>

\* SimulationEngine.__init__ with a configuration of configs
InitWith(configs) ==
    /\ config \in configs
    /\ deck = FreshDeck
    /\ pot = EmptyPot(config)
    /\ agents = [s \in AgentSeats(config) |-> [hands_played |-> 0, hands_won |-> 0]]
    /\ hand_number = 0
    /\ game_state = NoGame
    /\ street_state = NoStreet
    /\ dealer_seat \in GetAllSeats(config)
    /\ completed_hands = <<>>
    /\ hand_actions = 0
    /\ uncalled = 0
    /\ acted_since = {}
    /\ last = Idle
    /\ probe = NoProbe

Init == InitWith(Configs)

\* the pending calls are not made once a street has seen MaxActions actions
WithinBounds == street_state.action_count < MaxActions

StartNewHand ==
    /\ game_state = NoGame
    /\ \E shuffled \in Shuffles : Commit(StartNewHandCall(Eng, shuffled))
    /\ last' = [Idle EXCEPT !.op = "start_new_hand", !.result = "ok"]
    /\ UNCHANGED probe

\* the engine and the record of the call after a call that ended as r
Return(op, action, r) ==
    /\ Commit(r.e)
    /\ last' = Called(op, action, r)

PlayerAction ==
    /\ WithinBounds
    /\ \E req \in Requests :
          Return("player_action", req.action_type,
                 PlayerActionCall(Eng, req.action_type, req.amount))
    /\ UNCHANGED probe

AgentAction ==
    /\ WithinBounds
    /\ \E call \in {AgentActionRequest(Eng, d) : d \in Draws} :
          Return("agent_action", call.action_type, AgentActionRun(Eng, call))
    /\ UNCHANGED probe

Next == StartNewHand \/ PlayerAction \/ AgentAction

Spec == Init /\ [][Next]_vars

\* -------------------------------------------- hands of checks and calls
PassiveInit == InitWith(PassiveConfigs)

\* the seat to act answers CHECK when it owes nothing and CALL when it owes
PassiveAction ==
    /\ WithinBounds
    /\ game_state.current_player_seat \in DOMAIN game_state.players
    /\ LET owes == game_state.players[game_state.current_player_seat].current_bet
                       < street_state.current_bet
           action_type == IF owes THEN CALL ELSE CHECK
       IN  Return("player_action", action_type, PlayerActionCall(Eng, action_type, 0))
    /\ UNCHANGED probe

PassiveNext == StartNewHand \/ PassiveAction

PassiveSpec == PassiveInit /\ [][PassiveNext]_vars

\* ------------------------------------------ ActionValidator on its own
\* the players handed to the validator: a seat is not both folded and all-in,
\* and its bet on the street is never above the street's current bet
ProbePlayers ==
    {p \in [stack : 0..MaxProbe, current_bet : 0..MaxProbe,
            is_folded : BOOLEAN, is_all_in : BOOLEAN] :
        ~(p.is_folded /\ p.is_all_in)}

\* requested amounts: every amount up to one above stack + current-street bet
ProbeAmounts == 0..(2 * MaxProbe + 1)

ProbeRequests ==
    [action_type : {BET, RAISE}, amount : ProbeAmounts]
    \union [action_type : {FOLD, CHECK, CALL, ALL_IN} \union OtherActionTypes, amount : {0}]

\* arguments of validate_action / get_available_actions
ProbeArgs ==
    {a \in [request : ProbeRequests, player : ProbePlayers, current_bet : 0..MaxProbe,
            min_raise : 1..MaxProbe, big_blind : 1..2] :
        a.player.current_bet <= a.current_bet}

ValidatorInit ==
    /\ config = Table(2, 6, 1)
    /\ deck = FreshDeck
    /\ pot = EmptyPot(config)
    /\ agents = [s \in AgentSeats(config) |-> [hands_played |-> 0, hands_won |-> 0]]
    /\ hand_number = 0
    /\ game_state = NoGame
    /\ street_state = NoStreet
    /\ dealer_seat = 1
    /\ completed_hands = <<>>
    /\ hand_actions = 0
    /\ uncalled = 0
    /\ acted_since = {}
    /\ last = Idle
    /\ probe \in {[called |-> "none", args |-> a] : a \in ProbeArgs}

\* ActionValidator.validate_action(action_type, amount, player, current_bet, ...)
CallValidateAction ==
    /\ probe.called = "none"
    /\ LET a == probe.args
           v == ValidateAction(a.request.action_type, a.request.amount, a.player,
                               a.current_bet, a.min_raise, a.big_blind)
       IN  probe' = [called |-> "validate_action", args |-> a,
                     is_valid |-> v.is_valid, amount |-> v.amount]
    /\ UNCHANGED <<engine_vars, history_vars>>

\* ActionValidator.get_available_actions(player, current_bet, min_raise)
CallGetAvailableActions ==
    /\ probe.called = "none"
    /\ LET a == probe.args
       IN  probe' = [called |-> "get_available_actions", args |-> a,
                     available |-> GetAvailableActions(a.player, a.current_bet,
                                                       a.min_raise)]
    /\ UNCHANGED <<engine_vars, history_vars>>

ValidatorNext == CallValidateAction \/ CallGetAvailableActions

ValidatorSpec == ValidatorInit /\ [][ValidatorNext]_vars

\* ---------------------------------------------------- Deck on its own
\* the counts handed to deal: nothing, single cards, a flop, a whole deck, and
\* one card more than a deck holds
DealCounts == {0, 1, 3, 52, 53}

\* the outcomes of reset's shuffle
DeckShuffles == {StrideDeck(k, o) : k \in {1, 5, 7}, o \in {0, 13}}

\* Deck(): all 52 cards in the order of _reset, not shuffled; out lists the
\* cards dealt since the deck was last made whole
DeckInit ==
    /\ config = Table(2, 1, NoSeat)
    /\ deck = FreshDeck
    /\ pot = EmptyPot(config)
    /\ agents = [s \in AgentSeats(config) |-> [hands_played |-> 0, hands_won |-> 0]]
    /\ hand_number = 0
    /\ game_state = NoGame
    /\ street_state = NoStreet
    /\ dealer_seat = 1
    /\ completed_hands = <<>>
    /\ hand_actions = 0
    /\ uncalled = 0
    /\ acted_since = {}
    /\ last = Idle
    /\ probe = [called |-> "none", out |-> <<>>]

\* Deck.deal(count); raised is the ValueError
CallDeal ==
    /\ \E count \in DealCounts :
          /\ deck' = DeckDeal(deck, count).cards
          /\ probe' = [called |-> "deal", count |-> count, before |-> deck,
                       raised |-> ~DeckDeal(deck, count).ok,
                       dealt |-> DeckDeal(deck, count).dealt,
                       out |-> probe.out \o DeckDeal(deck, count).dealt]
    /\ UNCHANGED <<config, pot, agents, hand_number, game_state, street_state,
                   dealer_seat, completed_hands, hand_actions, history_vars>>

\* Deck.reset(): _reset, then shuffle
CallReset ==
    /\ deck' \in DeckShuffles
    /\ probe' = [called |-> "reset", before |-> deck, out |-> <<>>]
    /\ UNCHANGED <<config, pot, agents, hand_number, game_state, street_state,
                   dealer_seat, completed_hands, hand_actions, history_vars>>

DeckNext == CallDeal \/ CallReset

DeckSpec == DeckInit /\ [][DeckNext]_vars

\* ------------------------------------------- HandEvaluator on its own
\* cards whose first seven make, in this order: a royal flush; a 5-high
\* straight flush next to a 6; a 6-high straight over a 5-high one; a 5-high
\* straight; four of a kind; two sets of three; seven cards of one suit; three
\* of a kind; three pairs; one pair; no pair
EvaluatorHands ==
    {<<12, 11, 10, 9, 8, 7, 13, 51, 50, 49, 48>>,
     <<12, 0, 1, 2, 3, 17, 33, 51, 50, 49, 48>>,
     <<25, 0, 27, 41, 3, 17, 37, 51, 50, 49, 48>>,
     <<25, 0, 27, 41, 3, 20, 37, 51, 50, 49, 48>>,
     <<7, 20, 33, 46, 11, 25, 26, 51, 50, 49, 48>>,
     <<6, 19, 32, 3, 16, 29, 50, 51, 49, 48, 47>>,
     <<39, 41, 43, 45, 47, 49, 51, 50, 48, 46, 44>>,
     <<5, 18, 31, 50, 13, 33, 2, 51, 49, 48, 47>>,
     <<9, 22, 28, 41, 7, 20, 51, 50, 49, 48, 47>>,
     <<11, 24, 26, 42, 7, 22, 27, 51, 50, 49, 48>>,
     <<0, 16, 33, 48, 11, 18, 27, 51, 50, 49, 47>>}

\* the last deal gives the seats A-K, A-9 and A-5 with a King first on the board
\* the cards handed to get_winners: the top of a deck cut at offset o and read
\* with stride k, and two deals in which the seats holding Ace-King make the
\* same straight on the board Q J T 4 5 and the seat holding 2-3 makes nothing
EvaluatorCards ==
    {StrideDeck(k, o) : k \in {1, 3, 5, 7, 11}, o \in {0, 13, 26, 40}}
    \union {<<12, 11, 25, 24, 26, 27, 49, 9, 21, 41, 3>>,
            <<26, 27, 12, 11, 25, 24, 49, 9, 21, 41, 3>>}
    \union EvaluatorHands
    \union {<<12, 11, 25, 20, 38, 29, 37, 51, 50, 49, 48>>}


\* the deals: hole cards of one to three seats and a board of 0, 3, 4 or 5 cards
EvaluatorDeals ==
    {[cards |-> c, seats |-> n, board_len |-> b] :
        c \in EvaluatorCards, n \in 1..3, b \in {0, 3, 4, 5}}

\* the arguments of get_winners for a deal: seat s holds cards 2s-1 and 2s, the
\* board follows the hole cards
EvaluatorArgs(d) ==
    [board |-> SubSeq(d.cards, 2 * d.seats + 1, 2 * d.seats + d.board_len),
     player_cards |-> [s \in 1..d.seats |-> <<d.cards[2 * s - 1], d.cards[2 * s]>>]]

EvaluatorInit ==
    /\ config = Table(3, 1, NoSeat)
    /\ deck = FreshDeck
    /\ pot = EmptyPot(config)
    /\ agents = [s \in AgentSeats(config) |-> [hands_played |-> 0, hands_won |-> 0]]
    /\ hand_number = 0
    /\ game_state = NoGame
    /\ street_state = NoStreet
    /\ dealer_seat = 1
    /\ completed_hands = <<>>
    /\ hand_actions = 0
    /\ uncalled = 0
    /\ acted_since = {}
    /\ last = Idle
    /\ probe \in {[called |-> "none", args |-> EvaluatorArgs(d)] : d \in EvaluatorDeals}

\* HandEvaluator.get_winners(board, player_cards)
CallGetWinners ==
    /\ probe.called = "none"
    /\ probe' = [called |-> "get_winners", args |-> probe.args,
                 winners |-> GetWinners(probe.args.board, probe.args.player_cards,
                                        [i \in 1..Len(probe.args.player_cards) |-> i])]
    /\ UNCHANGED <<engine_vars, history_vars>>

\* the orders in which a caller lists the cards of a hand
EvaluateOrders == {"dealt", "reversed", "board_first"}
InOrder(hole, board, order) ==
    LET cards == hole \o board
    IN  CASE order = "reversed" -> [i \in 1..Len(cards) |-> cards[Len(cards) + 1 - i]]
          [] order = "board_first" -> board \o hole
          [] OTHER -> cards

\* HandEvaluator.evaluate(cards) for the hand of one seat of the deal
CallEvaluate ==
    /\ probe.called = "none"
    /\ \E seat \in DOMAIN probe.args.player_cards, order \in EvaluateOrders :
          probe' = [called |-> "evaluate", args |-> probe.args,
                    cards |-> InOrder(probe.args.player_cards[seat],
                                      probe.args.board, order),
                    result |-> Evaluate(InOrder(probe.args.player_cards[seat],
                                                probe.args.board, order))]
    /\ UNCHANGED <<engine_vars, history_vars>>

\* HandEvaluator.compare(cards1, cards2): the categories, then zip(keys1, keys2)
Compare(cards1, cards2) ==
    LET e1 == Evaluate(cards1)
        e2 == Evaluate(cards2)
        n == Min(Len(e1.keys), Len(e2.keys))
        diff == {i \in 1..n : e1.keys[i] # e2.keys[i]}
        first == CHOOSE i \in diff : \A j \in diff : i <= j
    IN  IF e1.rank > e2.rank THEN 1
        ELSE IF e1.rank < e2.rank THEN -1
        ELSE IF diff = {} THEN 0
        ELSE IF e1.keys[first] > e2.keys[first] THEN 1 ELSE -1

\* the numbers of board cards a hand handed to compare takes with its hole cards
CompareBoards(board) == {0, 1, Len(board)} \intersect 0..Len(board)

\* HandEvaluator.compare on every pair of three hands: seat i with the first
\* k[i] cards of the board
CallCompare ==
    /\ probe.called = "none"
    /\ Len(probe.args.player_cards) = 3
    /\ \E k \in [1..3 -> CompareBoards(probe.args.board)] :
          LET hands == [i \in 1..3 |->
                           probe.args.player_cards[i] \o SubSeq(probe.args.board, 1, k[i])]
          IN  probe' = [called |-> "compare", args |-> probe.args, hands |-> hands,
                        result |-> [i \in 1..3 |-> [j \in 1..3 |->
                                       Compare(hands[i], hands[j])]]]
    /\ UNCHANGED <<engine_vars, history_vars>>

EvaluatorNext == CallGetWinners \/ CallEvaluate \/ CallCompare

EvaluatorSpec == EvaluatorInit /\ [][EvaluatorNext]_vars

\* ---------------------------------------------- PotManager on its own
\* a PotManager of three seats, empty as after __init__ / reset_hand
PotInit ==
    /\ config = Table(3, MaxBets, NoSeat)
    /\ deck = FreshDeck
    /\ pot = EmptyPot(config)
    /\ agents = [s \in AgentSeats(config) |-> [hands_played |-> 0, hands_won |-> 0]]
    /\ hand_number = 0
    /\ game_state = NoGame
    /\ street_state = NoStreet
    /\ dealer_seat = 1
    /\ completed_hands = <<>>
    /\ hand_actions = 0
    /\ uncalled = 0
    /\ acted_since = {}
    /\ last = Idle
    /\ probe = NoProbe

\* PotManager.add_bet(seat, amount)
CallAddBet ==
    /\ \E seat \in GetAllSeats(config), amount \in 1..MaxBets :
          /\ pot.total_invested[seat] + amount <= MaxBets
          /\ pot' = PotAddBet(pot, seat, amount)
          /\ probe' = [called |-> "add_bet", before |-> pot, seat |-> seat,
                       amount |-> amount]
    /\ UNCHANGED <<config, deck, agents, hand_number, game_state, street_state,
                   dealer_seat, completed_hands, hand_actions, history_vars>>

\* PotManager.reset_street()
CallResetStreet ==
    /\ pot' = PotResetStreet(pot)
    /\ probe' = [called |-> "reset_street", before |-> pot]
    /\ UNCHANGED <<config, deck, agents, hand_number, game_state, street_state,
                   dealer_seat, completed_hands, hand_actions, history_vars>>

\* PotManager.return_uncalled_bets(last_aggressor_seat, active_seats); the calls
\* stop once they have taken main_pot below 0
CallReturnUncalledBets ==
    /\ \E last_aggressor_seat \in GetAllSeats(config),
          active_seats \in SUBSET GetAllSeats(config) :
          /\ pot.main_pot >= 0
          /\ pot' = PotReturnUncalledBets(pot, last_aggressor_seat, active_seats).pot
          /\ probe' = [called |-> "return_uncalled_bets", before |-> pot,
                       last_aggressor_seat |-> last_aggressor_seat,
                       active_seats |-> active_seats,
                       returns |-> [x \in {"seat", "amount"} |->
                           PotReturnUncalledBets(pot, last_aggressor_seat,
                                                 active_seats)[x]]]
    /\ UNCHANGED <<config, deck, agents, hand_number, game_state, street_state,
                   dealer_seat, completed_hands, hand_actions, history_vars>>

\* PotManager.reset_hand()
CallResetHand ==
    /\ pot' = EmptyPot(config)
    /\ probe' = [called |-> "reset_hand", before |-> pot]
    /\ UNCHANGED <<config, deck, agents, hand_number, game_state, street_state,
                   dealer_seat, completed_hands, hand_actions, history_vars>>

PotNext == CallAddBet \/ CallResetStreet \/ CallResetHand \/ CallReturnUncalledBets

PotSpec == PotInit /\ [][PotNext]_vars

\* ------------------------------------------- sessions of several hands
\* the tables of a session: heads-up with a hero and stacks that last to the
\* river, and three agents with short stacks
SessionConfigs == {Table(2, MaxAmount, 1), Table(3, 3, NoSeat)}

\* the calls of player_action in a session: FOLD, CHECK, CALL, and BET of one
\* big blind
SessionRequests ==
    {[action_type |-> FOLD, amount |-> 0], [action_type |-> CHECK, amount |-> 0],
     [action_type |-> CALL, amount |-> 0], [action_type |-> BET, amount |-> Chips(2)]}

\* the record of a session: the dealer of every hand started so far
SessionLog(dealers) == [called |-> "session", dealers |-> dealers]

\* SimulationEngine.__init__ with a table of a session
SessionInit ==
    /\ config \in SessionConfigs
    /\ deck = FreshDeck
    /\ pot = EmptyPot(config)
    /\ agents = [s \in AgentSeats(config) |-> [hands_played |-> 0, hands_won |-> 0]]
    /\ hand_number = 0
    /\ game_state = NoGame
    /\ street_state = NoStreet
    /\ dealer_seat \in GetAllSeats(config)
    /\ completed_hands = <<>>
    /\ hand_actions = 0
    /\ uncalled = 0
    /\ acted_since = {}
    /\ last = Idle
    /\ probe = SessionLog(<<>>)

\* start_new_hand, called in any state of the engine: before the first hand,
\* after a complete hand or in the middle of a hand
SessionStartNewHand ==
    /\ hand_number < MaxHands
    /\ Commit(StartNewHandCall(Eng, StrideDeck(5, 0)))
    /\ last' = [Idle EXCEPT !.op = "start_new_hand", !.result = "ok"]
    /\ probe' = SessionLog(Append(probe.dealers, dealer_seat'))

\* player_action for the seat to act
SessionAction ==
    /\ WithinBounds
    /\ \E req \in SessionRequests :
          Return("player_action", req.action_type,
                 PlayerActionCall(Eng, req.action_type, req.amount))
    /\ UNCHANGED probe

SessionNext == SessionStartNewHand \/ SessionAction

SessionSpec == SessionInit /\ [][SessionNext]_vars

\* ------------------------------------- hands at tables of up to nine seats
\* every seat can pay the big blind and a bet of one big blind on each street
DealConfigs == {Table(n, MaxAmount, NoSeat) : n \in TableSizes}

\* the calls of player_action in these hands: CHECK, CALL, and BET of one big blind
DealRequests ==
    {[action_type |-> CHECK, amount |-> 0], [action_type |-> CALL, amount |-> 0],
     [action_type |-> BET, amount |-> Chips(2)]}

DealInit == InitWith(DealConfigs)

\* player_action for the seat to act; a street sees one action per seat and one more
DealAction ==
    /\ street_state.action_count <= config.player_count
    /\ \E req \in DealRequests :
          Return("player_action", req.action_type,
                 PlayerActionCall(Eng, req.action_type, req.amount))
    /\ UNCHANGED probe

DealNext == StartNewHand \/ DealAction

DealSpec == DealInit /\ [][DealNext]_vars

\* ------------------------------------------------------------- properties
\* C1: when a hand is COMPLETE, the amounts credited to its winners add up to
\* the sum of all seats' total_invested minus the uncalled bets returned
\* during the hand.
C1_PotConservation ==
    game_state.phase = "complete" =>
        LET winners == ToHandRecord(Eng)[1].winners
            players == game_state.players
        IN  SumOver(winners, DOMAIN winners)
              = SumOver([s \in DOMAIN players |-> players[s].total_invested],
                        DOMAIN players) - uncalled

\* a showdown that two seats win, after an uncalled bet went back to its seat
C1_Witness ==
    /\ game_state.phase = "complete"
    /\ Len(game_state.community_cards) = 5
    /\ Cardinality(DOMAIN ToHandRecord(Eng)[1].winners) = 2
    /\ uncalled > 0

\* C2: in a hand in which every seat asked to act checks when it owes nothing
\* and calls when it owes, the hand reaches COMPLETE after finitely many
\* actions.  The engine reads nothing but the game state, the pot, the deck
\* and the street state, and on a street without a bet or raise it does not
\* read action_count; so every such action has to change one of them, or the
\* same seat is asked the same question for ever.
C2_PassiveHandAdvances ==
    [][(last'.op = "player_action" /\ last'.result = "ok"
        /\ street_state.last_aggressor = NoSeat)
       => <<game_state, pot, deck, [street_state EXCEPT !.action_count = 0]>>'
            # <<game_state, pot, deck, [street_state EXCEPT !.action_count = 0]>>]_vars

\* C3: an accepted FOLD that leaves one non-folded seat returns a COMPLETE
\* hand: that seat is the only winner and is credited the entire pot, and no
\* community card is dealt after the fold.
C3_FoldToOneSeat ==
    [][(last'.result = "ok" /\ last'.action = FOLD
        /\ Cardinality(NotFolded(game_state'.players)) = 1)
       => LET w == CHOOSE s \in NotFolded(game_state'.players) : TRUE
              winners == ToHandRecord(Eng')[1].winners
          IN  /\ game_state'.phase = "complete"
              /\ Len(completed_hands') = Len(completed_hands) + 1
              /\ DOMAIN winners = {w}
              /\ winners[w] = TotalPot(pot)
              /\ game_state'.players[w].stack
                   = game_state.players[w].stack + TotalPot(pot)
              /\ game_state'.community_cards = game_state.community_cards
              /\ deck' = deck]_vars

\* three seats, blinds 1/2: two folds before the flop, the big blind wins 3
C3_Witness ==
    /\ config.player_count = 3
    /\ game_state.phase = "complete"
    /\ last.action = FOLD
    /\ game_state.community_cards = <<>>
    /\ hand_actions = 4
    /\ LET bb_seat == NextSeat(config, NextSeat(config, game_state.dealer_seat))
       IN  ToHandRecord(Eng)[1].winners = (bb_seat :> Chips(3))

\* C4: with two or more seats in the hand, the state in which the engine leaves
\* a street has every non-folded, non-all-in seat at the street's current bet
\* and past an action of its own since that bet last rose.
C4_StreetLeftMatchedAndActed ==
    (last.street_done /\ Cardinality(NotFolded(last.closing.players)) >= 2) =>
        \A s \in NotFoldedNotAllIn(last.closing.players) :
            /\ last.closing.players[s].current_bet = last.closing.current_bet
            /\ s \in last.closing.acted_since

\* the preflop street of three seats is left after a raise that both others called
C4_Witness ==
    /\ last.street_done
    /\ last.closing.street = "preflop"
    /\ last.closing.current_bet > config.big_blind
    /\ Cardinality(NotFoldedNotAllIn(last.closing.players)) = 3

\* C5: in the state returned by the action that completes the preflop, flop or
\* turn street, the seat to act is the first non-folded, non-all-in seat in
\* ring order after the dealer.
C5_FirstToActAfterDealer ==
    (last.street_done /\ game_state.phase \in {"flop", "turn", "river"}
     /\ NotFoldedNotAllIn(game_state.players) # {}) =>
        LET n == config.player_count
            after(s) == (s - game_state.dealer_seat + n - 1) % n
            can_act == NotFoldedNotAllIn(game_state.players)
        IN  /\ game_state.current_player_seat \in can_act
            /\ \A s \in can_act : after(game_state.current_player_seat) <= after(s)

\* C6: whenever current_player_seat is non-null, the player at that seat is
\* neither folded nor all-in.
C6_SeatToActCanAct ==
    game_state.current_player_seat # NoSeat =>
        /\ game_state.current_player_seat \in DOMAIN game_state.players
        /\ ~game_state.players[game_state.current_player_seat].is_folded
        /\ ~game_state.players[game_state.current_player_seat].is_all_in

\* C7: a call of player_action with an action validate_action rejects raises
\* an error and leaves the engine exactly as it was.
C7_RejectedActionChangesNothing ==
    [][last'.result = "invalid" => UNCHANGED <<engine_vars, uncalled, acted_since>>]_vars

\* a CHECK or BET refused on the flop, with chips in the pot
C7_Witness ==
    /\ last.op = "player_action"
    /\ last.result = "invalid"
    /\ game_state.phase = "flop"
    /\ street_state.current_bet > 0

\* C8: player_action and agent_action called before any hand has been started,
\* or after the hand has reached COMPLETE, raise an error ("No hand in
\* progress", "No current player") and change nothing.
C8_NoHandNoAction ==
    [][(last'.op \in {"player_action", "agent_action"}
        /\ game_state.phase \in {"none", "complete"})
       => /\ last'.result = IF game_state.phase = "none" THEN "no_hand" ELSE "no_player"
          /\ UNCHANGED <<engine_vars, uncalled, acted_since>>]_vars

\* agent_action refused on a hand that a showdown has completed
C8_Witness ==
    /\ last.op = "agent_action"
    /\ last.result = "no_player"
    /\ game_state.phase = "complete"
    /\ Len(game_state.community_cards) = 5
    /\ Len(completed_hands) = 1

\* C9: a total validate_action accepts is never above stack + current-street
\* bet; a CALL with stack < owed and a RAISE with stack < owed + min_raise are
\* accepted and return stack + current-street bet; a RAISE of more than the
\* player has returns that total too.
C9_AllInTotalAsStated ==
    probe.called = "validate_action" =>
        LET a == probe.args
            owed == a.current_bet - a.player.current_bet
            all_in == a.player.stack + a.player.current_bet
        IN  /\ probe.is_valid => probe.amount <= all_in
            /\ (a.request.action_type = CALL /\ a.player.stack < owed)
                 => probe.is_valid /\ probe.amount = all_in
            /\ (a.request.action_type = RAISE /\ a.player.stack < owed + a.min_raise)
                 => probe.is_valid /\ probe.amount = all_in
            /\ (a.request.action_type = RAISE /\ probe.is_valid
                /\ a.request.amount >= all_in)
                 => probe.amount = all_in

\* C9, with the RAISE of a short stack taken where chips are owed (a RAISE
\* with nothing owed is rejected whatever the stack)
C9_AllInTotal ==
    probe.called = "validate_action" =>
        LET a == probe.args
            owed == a.current_bet - a.player.current_bet
            all_in == a.player.stack + a.player.current_bet
        IN  /\ probe.is_valid => probe.amount <= all_in
            /\ (a.request.action_type = CALL /\ a.player.stack < owed)
                 => probe.is_valid /\ probe.amount = all_in
            /\ (a.request.action_type = RAISE /\ owed > 0
                /\ a.player.stack < owed + a.min_raise)
                 => probe.is_valid /\ probe.amount = all_in
            /\ (a.request.action_type = RAISE /\ probe.is_valid
                /\ a.request.amount >= all_in)
                 => probe.amount = all_in

\* RAISE of 11 with stack 5, current bet 2 and min raise 2 returns 5
C9_Witness ==
    /\ probe.called = "validate_action"
    /\ probe.args.request = [action_type |-> RAISE, amount |-> 2 * MaxProbe + 1]
    /\ probe.args.player.stack = 5
    /\ probe.args.player.current_bet = 0
    /\ probe.args.current_bet = 2
    /\ probe.args.min_raise = 2
    /\ probe.is_valid
    /\ probe.amount = 5

\* C10: an accepted RAISE of a player whose stack covers owed + min_raise
\* returns at least the street's current bet + min_raise.
C10_RaiseAtLeastMinimum ==
    (probe.called = "validate_action" /\ probe.args.request.action_type = RAISE
     /\ probe.is_valid
     /\ probe.args.player.stack
          >= probe.args.current_bet - probe.args.player.current_bet
             + probe.args.min_raise)
    => probe.amount >= probe.args.current_bet + probe.args.min_raise

\* C11: an accepted BET returns a total T with
\* min(big_blind, stack + current-street bet) <= T <= stack + current-street
\* bet, and T is the requested amount whenever the requested amount lies
\* within those bounds, also for a player with chips in on this street.
C11_BetWithinLegalTotals ==
    (probe.called = "validate_action" /\ probe.args.request.action_type = BET
     /\ probe.is_valid) =>
        LET a == probe.args
            all_in == a.player.stack + a.player.current_bet
            lowest == Min(a.big_blind, all_in)
        IN  /\ lowest <= probe.amount
            /\ probe.amount <= all_in
            /\ (lowest <= a.request.amount /\ a.request.amount <= all_in)
                 => probe.amount = a.request.amount

\* C12: validate_action rejects CHECK when chips are owed, CALL when nothing
\* is owed, BET when chips are owed and RAISE when nothing is owed, for every
\* stack, requested amount and min_raise.
C12_WrongActionRejected ==
    probe.called = "validate_action" =>
        LET a == probe.args
            owed == a.current_bet - a.player.current_bet
            t == a.request.action_type
        IN  /\ (t = CHECK /\ owed > 0) => ~probe.is_valid
            /\ (t = CALL /\ owed = 0) => ~probe.is_valid
            /\ (t = BET /\ owed > 0) => ~probe.is_valid
            /\ (t = RAISE /\ owed = 0) => ~probe.is_valid

\* a RAISE of a stack that covers the minimum raise, rejected with nothing owed
C12_Witness ==
    /\ probe.called = "validate_action"
    /\ probe.args.request = [action_type |-> RAISE, amount |-> MaxProbe]
    /\ probe.args.player.stack = MaxProbe
    /\ probe.args.player.current_bet = 2
    /\ probe.args.current_bet = 2
    /\ probe.args.min_raise = 2
    /\ ~probe.is_valid

C14_ReturnsExcessOverSecond ==
    (probe.called = "return_uncalled_bets" /\ probe.returns.seat # NoSeat) =>
        LET bets == probe.before.current_bets
            others == probe.active_seats \ {probe.returns.seat}
            second == CHOOSE b \in {bets[s] : s \in others} :
                          \A s \in others : bets[s] <= b
        IN  /\ probe.returns.amount = bets[probe.returns.seat] - second
            /\ pot.main_pot = probe.before.main_pot - probe.returns.amount

\* C15: return_uncalled_bets returns chips only to last_aggressor_seat, and
\* only when that seat's current-street bet is strictly above the bet of
\* every other active seat; in every other case it returns nothing and leaves
\* the pot and the per-seat tracking as they were.
C15_ReturnsOnlyToAggressor ==
    probe.called = "return_uncalled_bets" =>
        LET bets == probe.before.current_bets
            agg == probe.last_aggressor_seat
            due == /\ agg \in probe.active_seats
                   /\ \A s \in probe.active_seats \ {agg} : bets[agg] > bets[s]
        IN  IF probe.returns.seat # NoSeat
            THEN probe.returns.seat = agg /\ due
            ELSE pot = probe.before

\* C16: when a hand ends with two or more non-folded seats, the winners are
\* the seats get_winners returns for the non-folded seats' hole cards and the
\* 5-card board; each winner's stack grows by pot / (number of winners) and
\* no other seat's stack changes, so a folded seat receives nothing.  (In the
\* call that ends the hand a seat's stack also pays the chips of the action
\* and may take back an uncalled bet: paid is what the seat invests in the
\* call, back what it has more than that and its win account for.)
C16_ShowdownPaysWinners ==
    [][(game_state.phase \in {"preflop", "flop", "turn", "river"}
        /\ game_state'.phase = "complete"
        /\ Cardinality(NotFolded(game_state'.players)) >= 2)
       => LET before == game_state.players
              after == game_state'.players
              active == NotFolded(after)
              order == SelectSeq(SeatOrder(config), LAMBDA s : s \in active)
              winner_seats == GetWinners(game_state'.community_cards,
                                         [s \in active |-> after[s].cards], order)
              winners == ToHandRecord(Eng')[1].winners
              share == TotalPot(pot') \div Cardinality(winner_seats)
              paid == [s \in DOMAIN after |->
                          after[s].total_invested - before[s].total_invested]
              won == [s \in DOMAIN after |-> IF s \in winner_seats THEN share ELSE 0]
              back == [s \in DOMAIN after |->
                          after[s].stack - before[s].stack + paid[s] - won[s]]
          IN  /\ Len(game_state'.community_cards) = 5
              /\ winners = [s \in winner_seats |-> share]
              /\ share * Cardinality(winner_seats) = TotalPot(pot')
              /\ \A s \in DOMAIN after : back[s] >= 0
              /\ SumOver(back, DOMAIN after) = uncalled' - uncalled
              /\ \A s \in DOMAIN after \ active : after[s].stack = before[s].stack]_vars

\* three seats, one folded: the showdown of the other two has one winner
C16_Witness ==
    /\ config.player_count = 3
    /\ game_state.phase = "complete"
    /\ Len(game_state.community_cards) = 5
    /\ Cardinality(NotFolded(game_state.players)) = 2
    /\ Cardinality(DOMAIN ToHandRecord(Eng)[1].winners) = 1

\* C17: for every board and every non-empty map of seats to hole cards,
\* get_winners returns exactly the seats whose (category, tie-break keys) for
\* hole cards plus board is the maximum over all seats: the result is never
\* empty and holds every tied seat.
C17_WinnersAreTheMaximum ==
    probe.called = "get_winners" =>
        LET hand == [s \in DOMAIN probe.args.player_cards |->
                        Evaluate(probe.args.player_cards[s] \o probe.args.board)]
            beats(a, b) == a.rank > b.rank \/ (a.rank = b.rank /\ KeysGT(a.keys, b.keys))
        IN  /\ probe.winners # {}
            /\ probe.winners =
                 {s \in DOMAIN hand : \A t \in DOMAIN hand : ~beats(hand[t], hand[s])}

\* three seats, a 5-card board: two seats tie for the best hand, the third loses
C17_Witness ==
    /\ probe.called = "get_winners"
    /\ Len(probe.args.player_cards) = 3
    /\ Len(probe.args.board) = 5
    /\ Cardinality(probe.winners) = 2

\* C18: within one hand the phase only moves forward along preflop, flop,
\* turn, river, complete (possibly jumping to complete) and never returns to
\* an earlier phase; there are 0 community cards in preflop, 3 in flop, 4 in
\* turn and 5 in river, and a hand that completes with two or more non-folded
\* seats has exactly 5 community cards.
C18_PhasesMoveForward ==
    [][LET order == [none |-> 0, preflop |-> 1, flop |-> 2, turn |-> 3, river |-> 4,
                     complete |-> 5]
           from == order[game_state.phase]
           to == order[game_state'.phase]
           cards == Len(game_state'.community_cards)
       IN  /\ to = from \/ to = from + 1 \/ (from >= 1 /\ to = 5)
           /\ to = 1 => cards = 0
           /\ to = 2 => cards = 3
           /\ to = 3 => cards = 4
           /\ to = 4 => cards = 5
           /\ (to = 5 /\ Cardinality(NotFolded(game_state'.players)) >= 2) => cards = 5
           /\ to = from => game_state'.community_cards = game_state.community_cards]_vars

\* a hand of three seats on the river: three streets left one after the other
C18_Witness ==
    /\ game_state.phase = "river"
    /\ config.player_count = 3
    /\ Len(game_state.community_cards) = 5
    /\ last.street_done
    /\ last.closing.street = "turn"

\* C19: every street transition sets every seat's current_bet to 0 and leaves
\* every seat's total_invested as the completed street left it, and no
\* operation within a hand (action, street transition, return of an uncalled
\* bet) decreases a seat's total_invested.
C19_StreetResetKeepsInvested ==
    [][/\ last'.street_done =>
            \A s \in DOMAIN game_state'.players :
                /\ game_state'.players[s].current_bet = 0
                /\ game_state'.players[s].total_invested
                     = last'.closing.players[s].total_invested
       /\ game_state.phase \in {"preflop", "flop", "turn", "river"} =>
            \A s \in DOMAIN game_state.players :
                game_state'.players[s].total_invested
                  >= game_state.players[s].total_invested]_vars

\* the flop is left for the turn and a bet nobody could call goes back to its
\* seat, whose total_invested stays what it was with the bet
C19_Witness ==
    /\ last.street_done
    /\ last.closing.street = "flop"
    /\ game_state.phase = "turn"
    /\ uncalled > 0
    /\ game_state.players[last.seat].current_bet = 0
    /\ game_state.players[last.seat].stack = uncalled
    /\ game_state.players[last.seat].total_invested
         = last.closing.players[last.seat].total_invested

\* C20: in the state start_new_hand returns, the next seat after the dealer in
\* ring order has posted min(small_blind, its stack), the seat after that
\* min(big_blind, its stack), a poster is all-in exactly when its stack
\* reached 0, the pot is the sum of the two posts, every other seat has
\* invested nothing, and the seat to act is the next seat after the big blind.
C20_BlindsPosted ==
    last.op = "start_new_hand" =>
        LET n == config.player_count
            players == game_state.players
            sb_seat == (game_state.dealer_seat % n) + 1
            bb_seat == (sb_seat % n) + 1
            sb_post == Min(config.small_blind, config.hero_stack)
            bb_post == Min(config.big_blind, config.hero_stack)
            posted == [s \in DOMAIN players |->
                          IF s = sb_seat THEN sb_post
                          ELSE IF s = bb_seat THEN bb_post ELSE 0]
        IN  /\ game_state.dealer_seat = dealer_seat
            /\ DOMAIN players = 1..n
            /\ \A s \in DOMAIN players :
                  /\ players[s].total_invested = posted[s]
                  /\ players[s].current_bet = posted[s]
                  /\ players[s].stack = config.hero_stack - posted[s]
                  /\ players[s].is_all_in
                       <=> (s \in {sb_seat, bb_seat} /\ players[s].stack = 0)
                  /\ ~players[s].is_folded
            /\ TotalPot(pot) = sb_post + bb_post
            /\ game_state.pot = sb_post + bb_post
            /\ game_state.current_player_seat = (bb_seat % n) + 1

\* three seats with one chip each: both blinds post one chip and are all-in,
\* the third seat has nothing in and is to act
C20_Witness ==
    /\ last.op = "start_new_hand"
    /\ config.player_count = 3
    /\ config.hero_stack = Chips(1)
    /\ TotalPot(pot) = Chips(2)
    /\ Cardinality({s \in DOMAIN game_state.players :
                        game_state.players[s].is_all_in}) = 2
    /\ game_state.players[game_state.current_player_seat].total_invested = 0

\* C21: each start_new_hand moves the dealer button to the next occupied seat
\* in ascending order with wrap-around, whether or not the hand before was
\* played to its end, so that in any N consecutive hands at a table of N seats
\* every seat is the dealer exactly once.
C21_DealerRotates ==
    [][hand_number' # hand_number =>
          LET n == config.player_count
              dealers == probe'.dealers
          IN  /\ dealer_seat' = (dealer_seat % n) + 1
              /\ game_state'.dealer_seat = dealer_seat'
              /\ dealers[Len(dealers)] = dealer_seat'
              /\ \A i \in 1..(Len(dealers) - n + 1) :
                    \A s \in 1..n :
                       Cardinality({j \in i..(i + n - 1) : dealers[j] = s}) = 1]_vars

\* the third hand of a table of three starts while the second hand is still
\* being played: one hand is complete, one was abandoned, and the three hands
\* had three different dealers
C21_Witness ==
    /\ last.op = "start_new_hand"
    /\ config.player_count = 3
    /\ hand_number = 3
    /\ Len(completed_hands) = 1
    /\ completed_hands[1].hand_id = 1
    /\ {probe.dealers[j] : j \in 1..3} = 1..3

\* C22: at every point of a hand at a table of N <= 9 seats the deck holds
\* 52 - 2N - (number of community cards) cards, every seat holds 2 hole cards,
\* hole cards and community cards are pairwise distinct and none of them is in
\* the deck; within a hand the deck never grows and no deal fails, so that the
\* flop shows 3 cards, the turn 4 and the river 5.
C22_DeckAccounting ==
    [][/\ game_state'.phase # "none" =>
             LET n == config'.player_count
                 players == game_state'.players
                 board == game_state'.community_cards
                 hole == {players[s].cards[i] : s \in DOMAIN players, i \in 1..2}
                 shown == {board[i] : i \in 1..Len(board)}
                 left == {deck'[i] : i \in 1..Len(deck')}
             IN  /\ n <= 9
                 /\ Len(deck') = 52 - 2 * n - Len(board)
                 /\ \A s \in DOMAIN players : Len(players[s].cards) = 2
                 /\ Cardinality(hole) = 2 * n
                 /\ Cardinality(shown) = Len(board)
                 /\ Cardinality(left) = Len(deck')
                 /\ hole \intersect shown = {}
                 /\ (hole \union shown) \intersect left = {}
                 /\ game_state'.phase = "preflop" => Len(board) = 0
                 /\ game_state'.phase = "flop" => Len(board) = 3
                 /\ game_state'.phase = "turn" => Len(board) = 4
                 /\ game_state'.phase = "river" => Len(board) = 5
       /\ hand_number' = hand_number => Len(deck') <= Len(deck)]_vars

\* nine seats on the river: 18 hole cards and 5 community cards are out, 29
\* cards are left
C22_Witness ==
    /\ config.player_count = 9
    /\ game_state.phase = "river"
    /\ Len(game_state.community_cards) = 5
    /\ Len(deck) = 29

\* C23: Deck.deal(n) with n greater than the number of remaining cards fails
\* with an error and leaves the remaining cards and their order unchanged.
C23_DealTooManyFails ==
    (probe.called = "deal" /\ probe.count > Len(probe.before)) =>
        /\ probe.raised
        /\ probe.dealt = <<>>
        /\ deck = probe.before

\* deal(1) on a deck whose 52 cards were all dealt
C23_Witness ==
    /\ probe.called = "deal"
    /\ probe.count = 1
    /\ probe.before = <<>>
    /\ Len(probe.out) = 52
    /\ probe.raised

\* C24: for 0 <= n <= remaining, Deck.deal(n) returns the first n cards of the
\* current sequence in order, removes exactly those and keeps the order of the
\* rest, so that no card is dealt twice between two resets; reset() in any
\* state restores a deck of all 52 distinct cards.
C24_DealFromFront ==
    /\ (probe.called = "deal" /\ probe.count <= Len(probe.before)) =>
          /\ ~probe.raised
          /\ Len(probe.dealt) = probe.count
          /\ probe.dealt \o deck = probe.before
          /\ Cardinality({probe.out[i] : i \in 1..Len(probe.out)}) = Len(probe.out)
          /\ \A i \in 1..Len(probe.out), j \in 1..Len(deck) : probe.out[i] # deck[j]
    /\ probe.called = "reset" =>
          /\ Len(deck) = 52
          /\ {deck[i] : i \in 1..52} = 0..51

\* a flop dealt from a deck from which cards were dealt before
C24_Witness ==
    /\ probe.called = "deal"
    /\ probe.count = 3
    /\ Len(probe.before) \in 4..51
    /\ probe.before[1] # 0
    /\ Len(probe.out) > 3
    /\ ~probe.raised

\* C25: add_bet(seat, a) raises that seat's bet of the street, that seat's
\* lifetime invested amount and main_pot by a each and changes no other seat;
\* reset_street sets every seat's bet of the street to 0 and leaves main_pot
\* and every lifetime amount as they were; reset_hand sets the pot and all
\* amounts of all seats to 0.
C25_PotFrameEffects ==
    LET before == probe.before
        seats == DOMAIN pot.current_bets
    IN  /\ probe.called = "add_bet" =>
              /\ pot.main_pot = before.main_pot + probe.amount
              /\ pot.current_bets[probe.seat]
                   = before.current_bets[probe.seat] + probe.amount
              /\ pot.total_invested[probe.seat]
                   = before.total_invested[probe.seat] + probe.amount
              /\ \A s \in seats \ {probe.seat} :
                    /\ pot.current_bets[s] = before.current_bets[s]
                    /\ pot.total_invested[s] = before.total_invested[s]
        /\ probe.called = "reset_street" =>
              /\ \A s \in seats : pot.current_bets[s] = 0
              /\ pot.main_pot = before.main_pot
              /\ pot.total_invested = before.total_invested
        /\ probe.called = "reset_hand" =>
              /\ pot.main_pot = 0
              /\ \A s \in seats : pot.current_bets[s] = 0 /\ pot.total_invested[s] = 0

\* reset_street with chips of two seats in the pot and bets on the street
C25_Witness ==
    /\ probe.called = "reset_street"
    /\ pot.main_pot = 3
    /\ Cardinality({s \in DOMAIN pot.total_invested : pot.total_invested[s] > 0}) = 2
    /\ \E s \in DOMAIN pot.current_bets : probe.before.current_bets[s] > 0

C27_EveryAgentRecorded ==
    [][(game_state.phase # "complete" /\ game_state'.phase = "complete") =>
          LET record == completed_hands'[Len(completed_hands')]
          IN  \A s \in AgentSeats(config) \intersect DOMAIN game_state.players :
                 /\ agents'[s].hands_played = agents[s].hands_played + 1
                 /\ agents'[s].hands_won
                      = agents[s].hands_won
                        + (IF s \in DOMAIN record.winners THEN 1 ELSE 0)]_vars

\* C28: player_action acts only for the hero seat: when the seat to act is not
\* the hero seat, a call of player_action leaves the state of that seat as it
\* was (it is not folded, no chips of it are bet); agent seats are moved by
\* agent_action only.
C28_PlayerActionOnlyHero ==
    [][LET seat == game_state.current_player_seat
       IN  (/\ last'.op = "player_action"
            /\ seat \in DOMAIN game_state.players
            /\ seat # config.hero_seat)
           => /\ game_state'.players[seat] = game_state.players[seat]
              /\ pot'.total_invested[seat] = pot.total_invested[seat]]_vars

\* C29: whenever a hand is in progress and the seat to act is an agent seat,
\* agent_action completes without an error, whatever decision type and amount
\* the agent's DecisionEngine returns, and the action it applies is one of the
\* actions get_available_actions offers for that seat in that state.
C29_AgentActionApplied ==
    [][(/\ last'.op = "agent_action"
        /\ game_state.phase \in {"preflop", "flop", "turn", "river"}
        /\ game_state.current_player_seat \in AgentSeats(config))
       => /\ last'.result = "ok"
          /\ last'.seat = game_state.current_player_seat
          /\ InSeq(last'.action, EngineAvailableActions(Eng))]_vars

\* C30: for 5 to 7 distinct cards evaluate returns the lexicographic maximum
\* of (category, tie-break keys) over all 5-card subsets, each subset taking
\* the highest category it satisfies in the order royal flush, straight flush,
\* four of a kind, full house, flush, straight, three of a kind, two pair, one
\* pair, high card, with A-2-3-4-5 a 5-high straight below the 6-high one.
\* The maximum is taken over sets of cards, so the order in which the cards
\* are listed does not change it.
C30_BestFiveOfN ==
    (probe.called = "evaluate" /\ Len(probe.cards) \in 5..7) =>
        LET down == [i \in 1..13 |-> 15 - i]
            Down(S) == SelectSeq(down, LAMBDA r : r \in S)
            Ranks(F) == {RankOf(c) : c \in F}
            With(F, k) == {r \in Ranks(F) : Cardinality({c \in F : RankOf(c) = r}) = k}
            OneSuit(F) == Cardinality({SuitOf(c) : c \in F}) = 1
            Wheel(F) == Ranks(F) = {14, 2, 3, 4, 5}
            Run(F) == Wheel(F) \/ \E lo \in 2..10 : Ranks(F) = lo..(lo + 4)
            Top(F) == IF Wheel(F) THEN 5 ELSE Down(Ranks(F))[1]
            Hand(category, keys) == [rank |-> category, keys |-> keys]
            Groups(F) == Down(With(F, 4)) \o Down(With(F, 3)) \o Down(With(F, 2))
                         \o Down(With(F, 1))
            Five(F) ==
                IF OneSuit(F) /\ Ranks(F) = 10..14 THEN Hand(ROYAL_FLUSH, <<14>>)
                ELSE IF OneSuit(F) /\ Run(F) THEN Hand(STRAIGHT_FLUSH, <<Top(F)>>)
                ELSE IF With(F, 4) # {} THEN Hand(FOUR_OF_A_KIND, Groups(F))
                ELSE IF With(F, 3) # {} /\ With(F, 2) # {} THEN Hand(FULL_HOUSE, Groups(F))
                ELSE IF OneSuit(F) THEN Hand(FLUSH, Down(Ranks(F)))
                ELSE IF Run(F) THEN Hand(STRAIGHT, <<Top(F)>>)
                ELSE IF With(F, 3) # {} THEN Hand(THREE_OF_A_KIND, Groups(F))
                ELSE IF Cardinality(With(F, 2)) = 2 THEN Hand(TWO_PAIR, Groups(F))
                ELSE IF With(F, 2) # {} THEN Hand(ONE_PAIR, Groups(F))
                ELSE Hand(HIGH_CARD, Down(Ranks(F)))
            Above(a, b) ==
                \/ a.rank > b.rank
                \/ /\ a.rank = b.rank
                   /\ \E i \in 1..Len(a.keys) :
                         /\ a.keys[i] > b.keys[i]
                         /\ \A j \in 1..(i - 1) : a.keys[j] = b.keys[j]
            held == {probe.cards[i] : i \in 1..Len(probe.cards)}
            fives == {F \in SUBSET held : Cardinality(F) = 5}
        IN  /\ Cardinality(held) = Len(probe.cards)
            /\ \E F \in fives : Five(F) = probe.result
            /\ \A F \in fives : ~Above(Five(F), probe.result)

\* seven cards listed from the last to the first that hold A-2-3-4-5 and
\* 2-3-4-5-6: the hand is the 6-high straight
C30_Witness ==
    /\ probe.called = "evaluate"
    /\ Len(probe.cards) = 7
    /\ probe.cards[7] = probe.args.player_cards[1][1]
    /\ {14, 2, 3, 4, 5, 6} \subseteq {RankOf(probe.cards[i]) : i \in 1..7}
    /\ probe.result = [rank |-> STRAIGHT, keys |-> <<6>>]

\* C31: compare is a strict weak ordering over hands of every size evaluate
\* accepts: compare(a, b) = -compare(b, a), "a beats b" is transitive, "a ties
\* b" is transitive, and compare(a, b) = 1 exactly when evaluate(a) has the
\* higher category or the same category and the greater key at the first
\* place where the keys differ.
C31_CompareStrictWeakOrder ==
    probe.called = "compare" =>
        LET cmp == probe.result
            ev == [i \in 1..3 |-> Evaluate(probe.hands[i])]
            greater(a, b) ==
                \/ a.rank > b.rank
                \/ /\ a.rank = b.rank
                   /\ \E i \in 1..Min(Len(a.keys), Len(b.keys)) :
                         /\ a.keys[i] > b.keys[i]
                         /\ \A j \in 1..(i - 1) : a.keys[j] = b.keys[j]
        IN  \A i, j, k \in 1..3 :
               /\ cmp[i][j] = -cmp[j][i]
               /\ (cmp[i][j] = 1 /\ cmp[j][k] = 1) => cmp[i][k] = 1
               /\ (cmp[i][j] = 0 /\ cmp[j][k] = 0) => cmp[i][k] = 0
               /\ cmp[i][j] = 1 <=> greater(ev[i], ev[j])

\* C32: for every input of 2 to 4 cards evaluate returns a result without an
\* error, and the category of that result is the lowest one, high card.
C32_PartialHandsLowestCategory ==
    (probe.called = "evaluate" /\ Len(probe.cards) \in 2..4) =>
        /\ probe.result.rank = HIGH_CARD
        /\ Len(probe.result.keys) > 0

\* C33: after an accepted action of seat X that does not end the street, the
\* seat to act is the first seat after X in ring order that has not folded, is
\* not all-in and either owes chips or has not acted on the street; a seat
\* that has acted on the street and owes nothing is not asked again.
C33_NextSeatInRingOrder ==
    [][(/\ last'.op \in {"player_action", "agent_action"}
        /\ last'.result = "ok"
        /\ ~last'.street_done
        /\ game_state'.phase \in {"preflop", "flop", "turn", "river"})
       => LET n == config.player_count
              players == game_state'.players
              ring == [i \in 1..n |-> ((last'.seat - 1 + i) % n) + 1]
              due(s) == /\ ~players[s].is_folded
                        /\ ~players[s].is_all_in
                        /\ \/ players[s].current_bet < street_state'.current_bet
                           \/ s \notin street_state'.acted_seats
              found == {i \in 1..n : due(ring[i])}
          IN  /\ found # {}
              /\ game_state'.current_player_seat
                   = ring[CHOOSE i \in found : \A j \in found : i <= j]]_vars

\* C34: whenever a hand has been started and its phase is not COMPLETE, a
\* seat to act is set; in particular no hand is left, short of COMPLETE, with
\* two or more seats in it and every one of them all-in.
C34_HandCanContinue ==
    (game_state # NoGame /\ game_state.phase # "complete")
      => /\ game_state.current_player_seat # NoSeat
         /\ ~(/\ Cardinality(NotFolded(game_state.players)) >= 2
              /\ NotFoldedNotAllIn(game_state.players) = {})

\* C35: after every accepted action, every seat that has not folded and has
\* an empty stack is marked all-in, whichever action type took its last
\* chips, and it is not the seat to act.
C35_EmptyStackIsAllIn ==
    [][(/\ last'.op \in {"player_action", "agent_action"}
        /\ last'.result = "ok")
       => \A s \in DOMAIN game_state'.players :
            LET p == game_state'.players[s]
            IN  (~p.is_folded /\ p.stack = 0)
                  => /\ p.is_all_in
                     /\ game_state'.current_player_seat # s]_vars

\* C36: chips are conserved: from start_new_hand until the pot is awarded the
\* stacks plus the pot add up to (number of seats) x (starting stack); once
\* the hand is COMPLETE the stacks alone add up to that total; and no stack
\* is ever negative.
C36_ChipsConserved ==
    game_state # NoGame
      => LET players == game_state.players
             stacks == SumOver([s \in DOMAIN players |-> players[s].stack], DOMAIN players)
             total == config.player_count * config.hero_stack
         IN  /\ \A s \in DOMAIN players : players[s].stack >= 0
             /\ game_state.phase # "complete" => stacks + game_state.pot = total
             /\ game_state.phase = "complete" => stacks = total

\* a hand that went to a showdown after an uncalled bet was returned, with
\* the pot paid out to a seat that now holds more than the starting stack
C36_Witness ==
    /\ game_state # NoGame
    /\ game_state.phase = "complete"
    /\ Cardinality(NotFolded(game_state.players)) >= 2
    /\ uncalled > 0
    /\ \E s \in DOMAIN game_state.players :
         game_state.players[s].stack > config.hero_stack

\* C37: an accepted CALL, BET, RAISE or ALL_IN never lowers the acting seat's
\* current_bet: the bet made is at least the seat's bet before the action and
\* equals that bet plus the chips the action took from the seat's stack.
C37_BetNeverDecreases ==
    [][(/\ last'.op \in {"player_action", "agent_action"}
        /\ last'.result = "ok"
        /\ last'.action \in {CALL, BET, RAISE, ALL_IN})
       => LET before == game_state.players[last'.seat]
              bet == IF last'.street_done
                     THEN last'.closing.players[last'.seat].current_bet
                     ELSE game_state'.players[last'.seat].current_bet
              stack == IF last'.street_done
                       THEN last'.closing.players[last'.seat].stack
                       ELSE game_state'.players[last'.seat].stack
          IN  /\ bet >= before.current_bet
              /\ bet = before.current_bet + (before.stack - stack)]_vars

\* C38: in the state start_new_hand returns, every seat's stack and blind add
\* up to the configured starting stack whatever happened in earlier hands,
\* and nothing of the hand before is left: the pot holds the blinds of this
\* hand only, no seat is folded, a seat is all-in only with an empty stack,
\* current bets and total_invested are the blinds, the board is empty, no
\* seat has acted and the only actions on record are the blinds, also when
\* the hand before was abandoned mid-way.
C38_NewHandStartsAfresh ==
    [][(last'.op = "start_new_hand" /\ hand_number' = hand_number + 1)
       => LET players == game_state'.players
              seats == DOMAIN players
              blinds == SumOver([s \in seats |-> players[s].total_invested], seats)
          IN  /\ seats = GetAllSeats(config)
              /\ \A s \in seats :
                   /\ players[s].stack + players[s].total_invested = config.hero_stack
                   /\ players[s].current_bet = players[s].total_invested
                   /\ players[s].total_invested <= config.big_blind
                   /\ ~players[s].is_folded
                   /\ players[s].is_all_in => players[s].stack = 0
              /\ blinds <= config.small_blind + config.big_blind
              /\ game_state'.pot = blinds
              /\ TotalPot(pot') = blinds
              /\ game_state'.community_cards = <<>>
              /\ game_state'.phase = "preflop"
              /\ street_state'.acted_seats = {}
              /\ street_state'.action_count = 0
              /\ hand_actions' <= 2]_vars

\* the third hand of a session has been started, one of the two hands before
\* it was played to the end and paid to a winner, the other was abandoned
C38_Witness ==
    /\ last.op = "start_new_hand"
    /\ hand_number = 3
    /\ Len(completed_hands) = 1
    /\ DOMAIN completed_hands[1].winners # {}
    /\ game_state.phase = "preflop"

\* C39: in the state start_new_hand returns, at every table of 2 to 9 seats,
\* the seat that posted the small blind holds position SB and the seat that
\* posted the big blind holds position BB.
C39_BlindsMatchPositions ==
    (last.op = "start_new_hand" /\ game_state.phase = "preflop")
      => LET players == game_state.players
             sorted_seats == [i \in 1..config.player_count |-> i]
             position == AssignPositions(sorted_seats, game_state.dealer_seat)
         IN  \A s \in DOMAIN players :
               /\ players[s].total_invested = config.small_blind => position[s] = "SB"
               /\ players[s].total_invested = config.big_blind => position[s] = "BB"

\* C40: whatever the draws of the DecisionEngine, agent_action never applies
\* FOLD for an agent seat that has not folded, is not all-in and owes nothing:
\* the action it applies is CHECK or BET.
C40_NoFoldWhenCheckIsFree ==
    [][(/\ last'.op = "agent_action"
        /\ game_state.phase \in {"preflop", "flop", "turn", "river"}
        /\ game_state.current_player_seat \in AgentSeats(config)
        /\ ~IsHeroTurn(Eng)
        /\ LET player == game_state.players[game_state.current_player_seat]
           IN  /\ ~player.is_folded
               /\ ~player.is_all_in
               /\ street_state.current_bet - player.current_bet <= 0)
       => /\ last'.action # FOLD
          /\ last'.result = "ok" => last'.action \in {CHECK, BET}]_vars

\* an agent seat that owed nothing has just bet through agent_action
C40_Witness ==
    /\ last.op = "agent_action"
    /\ last.result = "ok"
    /\ last.action = BET
    /\ last.seat \in AgentSeats(config)

====
